---- MODULE Spec2Model ----
(***************************************************************************)
(* Model of video-exporter: the cycle scheduler (scheduler.go), the stream *)
(* sampler and its metric snapshot (stream.go: StreamChecker.Check,        *)
(* MarkFailed, GetMetrics) and the gauge projection (exporter.go:          *)
(* Exporter.updateMetrics).                                                *)
(*                                                                         *)
(* Units.  Wall-clock and DTS spans are counted in units of 100 ms, byte   *)
(* counts in units of 1250 bytes (10^4 bits).  A rate "bytes * 8 / secs"   *)
(* is then bytesU / timeU in units of 100 kbit/s, so the source's          *)
(* thresholds 600000 and 400000 bps are 6 and 4.  float64 values are       *)
(* modelled as exact rationals <<n, d>> in lowest terms with d > 0.        *)
(***************************************************************************)
EXTENDS Integers, Sequences, FiniteSets, TLC

\* ------------------------------------------------------------------------
\* Bounds of the model
\* ------------------------------------------------------------------------
MaxCycles == 2         \* cycles launched in the scheduler specification
MaxRetriesBound == 2   \* largest max_retries tried in the retry specification
MaxRetryCycles == 2    \* cycles launched in the retry specification
MaxStoreCycles == 12   \* cycles launched in the store specification
MaxScrapeCycles == 3   \* cycles launched in the scrape specification
MaxTimedCycles == 2    \* cycles launched in the timed specification
MaxStopCycles == 3     \* cycles launched in the shutdown specification
MaxFairCycles == 2     \* cycles launched in the cycle specification
MaxDefaultCycles == 2  \* cycles launched in the defaults specification
MaxScoreCycles == 3    \* cycles launched in the score specification
MaxStabilityCycles == 4  \* cycles launched in the stability specification
MaxIsolationCycles == 3  \* cycles launched in the isolation specification
MaxEntries == 3        \* stream entries of a configuration in the load specification
MaxGathers == 2        \* GetAllMetrics calls in the gather specification
MaxTimeoutCycles == 2  \* cycles launched in the timeout specification

\* ------------------------------------------------------------------------
\* Program constants
\* ------------------------------------------------------------------------
HistoryCap == 10       \* bitrateHistory keeps at most 10 entries
MinHistory == 3        \* stability needs at least 3 entries
PlayableKeyframes == 2 \* playable: keyframeCount >= 2
PlayableVideo == 10    \* playable: videoCount > 10
GoodFps == 25
GoodRate == 6          \* 600000 bps in units of 100 kbit/s
FairFps == 20
FairRate == 4          \* 400000 bps in units of 100 kbit/s
DefaultSampleDuration == 10  \* sampleDurationSec := 10
DefaultMinKeyframes == 2     \* minKeyframes := 2
DefaultStallMs == 200        \* getStallThreshold's fallback
LongInterval == 20           \* CheckInterval > 20 gives the longer timeout
TimeoutMargin == 5           \* the 5 s added to the sample or cut from the interval
UnitsPerSecond == 10   \* one second is 10 time units of 100 ms
MsPerUnit == 100       \* one time unit is 100 ms

\* ------------------------------------------------------------------------
\* Exact rationals standing for float64
\* ------------------------------------------------------------------------
Abs(x) == IF x < 0 THEN -x ELSE x

\* the element of a one-element set: {e(x) : x \in {v}} works e out on the
\* value of v, worked out once
The(S) == CHOOSE x \in S : TRUE

RECURSIVE GCD(_, _)
GCD(a, b) == IF b = 0 THEN a ELSE The({GCD(y, x % y) : x \in {a}, y \in {b}})

\* n / d with the common factor g taken out and the sign in the numerator
Reduce(n, d, g) ==
  IF d < 0 THEN <<(-n) \div g, (-d) \div g>> ELSE <<n \div g, d \div g>>

\* n / d in lowest terms, d # 0
Rat(n, d) == The({Reduce(x, y, GCD(Abs(x), Abs(y))) : x \in {n}, y \in {d}})

Zero == <<0, 1>>
One == <<1, 1>>
RInt(n) == <<n, 1>>
RAdd(a, b) == The({Rat(x[1] * y[2] + y[1] * x[2], x[2] * y[2]) : x \in {a}, y \in {b}})
RSub(a, b) == The({Rat(x[1] * y[2] - y[1] * x[2], x[2] * y[2]) : x \in {a}, y \in {b}})
RMul(a, b) == The({Rat(x[1] * y[1], x[2] * y[2]) : x \in {a}, y \in {b}})
RDiv(a, b) == The({Rat(x[1] * y[2], x[2] * y[1]) : x \in {a}, y \in {b}})
RLt(a, b) == a[1] * b[2] < b[1] * a[2]
RLe(a, b) == a[1] * b[2] <= b[1] * a[2]
RGt(a, b) == RLt(b, a)
RGe(a, b) == RLe(b, a)

RECURSIVE SumFirst(_, _)
\* sum of h[1..k], the loop "for i := 0; i < historyLen; i++ { sum += h[i] }"
SumFirst(h, k) == IF k = 0 THEN Zero ELSE RAdd(SumFirst(h, k - 1), h[k])

RECURSIVE SqDevFirst(_, _, _)
\* sum of (h[i] - avg)^2 over h[1..k]
SqDevFirst(h, avg, k) ==
  IF k = 0 THEN Zero
  ELSE RAdd(SqDevFirst(h, avg, k - 1),
            RMul(RSub(h[k], avg), RSub(h[k], avg)))

\* ------------------------------------------------------------------------
\* The metric snapshot of one stream (the StreamChecker fields under mu)
\* ------------------------------------------------------------------------
\* NewStreamChecker: every field not named there has Go's zero value
NewStreamChecker ==
  [ totalPackets |-> 0, videoPackets |-> 0, audioPackets |-> 0, keyframes |-> 0,
    currentBitrate |-> Zero, avgBitrate |-> Zero, bitrateHistory |-> <<>>,
    framerate |-> Zero, codec |-> "", response |-> 0, gopSize |-> 0,
    width |-> 0, height |-> 0, quality |-> "unknown", playable |-> FALSE,
    bitrateStability |-> "", healthy |-> FALSE, lastCheckTime |-> 0,
    consecutiveFails |-> 0, ttfbMs |-> 0, readThroughputBps |-> Zero,
    readStallCount |-> 0, readStallMaxMs |-> 0, readStallTotalMs |-> 0,
    readStallRatio |-> Zero ]

\* time.Duration.Seconds() * 1000 and Duration.Milliseconds(), from time units
Millis(u) == u * MsPerUnit

\* the quotient rounded up instead of down
KeyframeIntervalRoundedUp(m) ==
  IF m.keyframeCount > 1
  THEN (m.videoCount + m.keyframeCount - 1) \div m.keyframeCount
  ELSE IF m.keyframeCount = 1 THEN m.videoCount
  ELSE 0

\* GOP size from the loop's counters
KeyframeInterval(m) ==
  IF m.keyframeCount > 1 THEN m.videoCount \div m.keyframeCount
  ELSE IF m.keyframeCount = 1 THEN m.videoCount
  ELSE 0

\* ttfbMs: 0 unless the reader saw a read with n > 0
TtfbMs(m) == IF m.firstRead THEN Millis(m.ttfb) ELSE 0

\* totalBytes*8 / duration.Seconds(), 0 when the duration is not positive
ReadThroughput(m) ==
  IF m.duration > 0 THEN Rat(m.totalBytes, m.duration) ELSE Zero

\* (variant: the ratio without the cut)
ReadStallRatioUncut(m) ==
  IF m.duration > 0 THEN Rat(m.totalStall, m.duration) ELSE Zero

\* totalStall / duration, cut to 1 from above, 0 when the duration is not positive
ReadStallRatio(m) ==
  IF m.duration > 0
  THEN LET r == Rat(m.totalStall, m.duration)
       IN  IF RGt(r, One) THEN One ELSE r
  ELSE Zero

\* (variant: a commit that forgets "sc.consecutiveFails = 0")
CommitCountersKeepFails(s, m, now) ==
  [ s EXCEPT !.totalPackets = m.packetCount,
             !.videoPackets = m.videoCount,
             !.audioPackets = m.audioCount,
             !.keyframes = m.keyframeCount,
             !.lastCheckTime = now,
             !.healthy = TRUE,
             !.gopSize = KeyframeInterval(m),
             !.response = Millis(m.response),
             !.ttfbMs = TtfbMs(m),
             !.readThroughputBps = ReadThroughput(m),
             !.readStallCount = m.stallCount,
             !.readStallMaxMs = Millis(m.maxStall),
             !.readStallTotalMs = Millis(m.totalStall),
             !.readStallRatio = ReadStallRatio(m) ]

\* First half of the commit: the counters, health and network fields
CommitCounters(s, m, now) ==
  [ s EXCEPT !.totalPackets = m.packetCount,
             !.videoPackets = m.videoCount,
             !.audioPackets = m.audioCount,
             !.keyframes = m.keyframeCount,
             !.lastCheckTime = now,
             !.healthy = TRUE,
             !.consecutiveFails = 0,
             !.gopSize = KeyframeInterval(m),
             !.response = Millis(m.response),
             !.ttfbMs = TtfbMs(m),
             !.readThroughputBps = ReadThroughput(m),
             !.readStallCount = m.stallCount,
             !.readStallMaxMs = Millis(m.maxStall),
             !.readStallTotalMs = Millis(m.totalStall),
             !.readStallRatio = ReadStallRatio(m) ]

\* Framerate and current bitrate: from the DTS window, else the bitrate from
\* the wall clock; fields no branch assigns keep the previous snapshot's value
CommitRates(s, m) ==
  IF m.lastDTS > m.firstDTS
  THEN [ s EXCEPT !.framerate = Rat(m.videoCount * UnitsPerSecond, m.lastDTS - m.firstDTS),
                  !.currentBitrate = Rat(m.totalBytes, m.lastDTS - m.firstDTS) ]
  ELSE IF m.duration > 0
       THEN [ s EXCEPT !.currentBitrate = Rat(m.totalBytes, m.duration) ]
       ELSE s

\* (variant: a history that is never cut)
PushHistoryNoCap(h, b) == Append(h, b)

\* append, then drop the oldest entry when the history is longer than the cap
PushHistory(h, b) ==
  LET a == Append(h, b)
  IN  IF Len(a) > HistoryCap THEN Tail(a) ELSE a

\* (variant: a CV equal to p/q counts as below it)
CvBelowOrEqual(h, avg, p, q) ==
  LET n == Len(h)
      variance == RDiv(SqDevFirst(h, avg, n), RInt(n))
  IN  RLe(RMul(RInt(q * q), variance), RMul(RInt(p * p), RMul(avg, avg)))

\* CV = sqrt(variance) / avg compared with p/q, for avg > 0, without the root
CvBelow(h, avg, p, q) ==
  LET n == Len(h)
      variance == RDiv(SqDevFirst(h, avg, n), RInt(n))
  IN  RLt(RMul(RInt(q * q), variance), RMul(RInt(p * p), RMul(avg, avg)))

StabilityLabel(h, avg) ==
  IF Len(h) >= MinHistory
  THEN IF RGt(avg, Zero)
       THEN IF CvBelow(h, avg, 15, 100) THEN "stable"
            ELSE IF CvBelow(h, avg, 30, 100) THEN "moderate"
            ELSE "unstable"
       ELSE "unknown"
  ELSE "unknown"

\* sum / historyLen
Mean(h) == RDiv(SumFirst(h, Len(h)), RInt(Len(h)))

\* the snapshot with history h, its mean and the stability label of the two
WithHistory(s, h) ==
  The({[ s EXCEPT !.bitrateHistory = h,
                  !.avgBitrate = avg,
                  !.bitrateStability = StabilityLabel(h, avg) ] : avg \in {Mean(h)}})

\* History, mean and stability: only when the current bitrate is positive
CommitHistory(s) ==
  IF RGt(s.currentBitrate, Zero)
  THEN The({WithHistory(s, h) :
              h \in {PushHistory(s.bitrateHistory, s.currentBitrate)}})
  ELSE s

IsPlayable(m) == m.keyframeCount >= PlayableKeyframes /\ m.videoCount > PlayableVideo

\* (variant: thresholds that must be exceeded)
QualityLabelStrict(playable, framerate, bitrate) ==
  IF playable
  THEN IF RGt(framerate, RInt(GoodFps)) /\ RGt(bitrate, RInt(GoodRate)) THEN "good"
       ELSE IF RGt(framerate, RInt(FairFps)) /\ RGt(bitrate, RInt(FairRate)) THEN "fair"
       ELSE "poor"
  ELSE "poor"

QualityLabel(playable, framerate, bitrate) ==
  IF playable
  THEN IF RGe(framerate, RInt(GoodFps)) /\ RGe(bitrate, RInt(GoodRate)) THEN "good"
       ELSE IF RGe(framerate, RInt(FairFps)) /\ RGe(bitrate, RInt(FairRate)) THEN "fair"
       ELSE "poor"
  ELSE "poor"

CommitQuality(s, m) ==
  [ s EXCEPT !.playable = IsPlayable(m),
             !.quality = QualityLabel(IsPlayable(m), s.framerate, s.currentBitrate) ]

\* Second half of the commit, up to the deferred Unlock: each stage works on
\* the snapshot the stage before it has left
CommitDerived(s, m) ==
  The({CommitQuality(h, m) : h \in {CommitHistory(r) : r \in {CommitRates(s, m)}}})

\* MarkFailed up to "sc.codec = ''"; bitrateHistory is not assigned
MarkFailedHeadClearsHistory(s) ==
  [ s EXCEPT !.consecutiveFails = s.consecutiveFails + 1,
             !.healthy = FALSE,
             !.playable = FALSE,
             !.totalPackets = 0, !.videoPackets = 0, !.audioPackets = 0,
             !.keyframes = 0, !.currentBitrate = Zero, !.avgBitrate = Zero,
             !.framerate = Zero, !.codec = "", !.bitrateHistory = <<>> ]

MarkFailedHead(s) ==
  [ s EXCEPT !.consecutiveFails = s.consecutiveFails + 1,
             !.healthy = FALSE,
             !.playable = FALSE,
             !.totalPackets = 0, !.videoPackets = 0, !.audioPackets = 0,
             !.keyframes = 0, !.currentBitrate = Zero, !.avgBitrate = Zero,
             !.framerate = Zero, !.codec = "" ]

\* (variant: a MarkFailed that leaves the stall fields of the last sample)
MarkFailedRestKeepsStall(s, now) ==
  [ s EXCEPT !.response = 0, !.gopSize = 0,
             !.width = 0, !.height = 0, !.quality = "poor",
             !.bitrateStability = "unstable", !.lastCheckTime = now,
             !.ttfbMs = 0, !.readThroughputBps = Zero ]

\* the rest of MarkFailed, up to the deferred Unlock
MarkFailedRest(s, now) ==
  [ s EXCEPT !.response = 0, !.gopSize = 0,
             !.width = 0, !.height = 0, !.quality = "poor",
             !.bitrateStability = "unstable", !.lastCheckTime = now,
             !.ttfbMs = 0, !.readThroughputBps = Zero, !.readStallCount = 0,
             !.readStallMaxMs = 0, !.readStallTotalMs = 0,
             !.readStallRatio = Zero ]

\* GetMetrics: a copy of the fields, taken under the read lock
GetMetrics(s) ==
  [ TotalPackets |-> s.totalPackets, VideoPackets |-> s.videoPackets,
    AudioPackets |-> s.audioPackets, Keyframes |-> s.keyframes,
    CurrentBitrate |-> s.currentBitrate, AvgBitrate |-> s.avgBitrate,
    Framerate |-> s.framerate, Codec |-> s.codec, Response |-> s.response,
    GOPSize |-> s.gopSize, Width |-> s.width, Height |-> s.height,
    Quality |-> s.quality, Playable |-> s.playable,
    BitrateStability |-> s.bitrateStability, Healthy |-> s.healthy,
    LastCheckTime |-> s.lastCheckTime, ConsecutiveFails |-> s.consecutiveFails,
    TTFBMs |-> s.ttfbMs, ReadThroughputBps |-> s.readThroughputBps,
    ReadStallCount |-> s.readStallCount, ReadStallMaxMs |-> s.readStallMaxMs,
    ReadStallTotalMs |-> s.readStallTotalMs, ReadStallRatio |-> s.readStallRatio ]

\* ------------------------------------------------------------------------
\* The gauge projection of Exporter.updateMetrics
\* ------------------------------------------------------------------------
QualityScore(q) == IF q = "good" THEN 2 ELSE IF q = "fair" THEN 1 ELSE 0

StabilityScore(st) == IF st = "stable" THEN 2 ELSE IF st = "moderate" THEN 1 ELSE 0

\* (variant: the override fires at 0.5 already)
OverallScoreFromHalf(qs, ss, stallRatio) ==
  IF RGe(stallRatio, <<1, 2>>) THEN 0
  ELSE IF qs = 2 /\ ss = 2 THEN 2
  ELSE IF qs = 2 /\ ss = 1 THEN 1
  ELSE IF qs = 1 /\ ss = 2 THEN 1
  ELSE IF qs = 1 /\ ss = 1 THEN 1
  ELSE 0

OverallScore(qs, ss, stallRatio) ==
  IF RGt(stallRatio, <<1, 2>>) THEN 0
  ELSE IF qs = 2 /\ ss = 2 THEN 2
  ELSE IF qs = 2 /\ ss = 1 THEN 1
  ELSE IF qs = 2 /\ ss = 0 THEN 0
  ELSE IF qs = 1 /\ ss = 2 THEN 1
  ELSE IF qs = 1 /\ ss = 1 THEN 1
  ELSE IF qs = 1 /\ ss = 0 THEN 0
  ELSE 0

UpdateMetrics(m) ==
  [ up |-> IF m.Healthy THEN 1 ELSE 0,
    healthy |-> IF m.Healthy /\ m.ConsecutiveFails = 0 THEN 1 ELSE 0,
    playable |-> IF m.Playable THEN 1 ELSE 0,
    total_packets |-> m.TotalPackets, video_packets |-> m.VideoPackets,
    audio_packets |-> m.AudioPackets, keyframes |-> m.Keyframes,
    bitrate_bps |-> m.CurrentBitrate, avg_bitrate_bps |-> m.AvgBitrate,
    framerate |-> m.Framerate, response_ms |-> m.Response,
    gop_size |-> m.GOPSize,
    quality_score |-> QualityScore(m.Quality),
    stability_score |-> StabilityScore(m.BitrateStability),
    overall_score |-> OverallScore(QualityScore(m.Quality),
                                   StabilityScore(m.BitrateStability),
                                   m.ReadStallRatio),
    ttfb_ms |-> m.TTFBMs, read_throughput_bps |-> m.ReadThroughputBps,
    read_stall_count |-> m.ReadStallCount, read_stall_max_ms |-> m.ReadStallMaxMs,
    read_stall_total_ms |-> m.ReadStallTotalMs,
    read_stall_ratio |-> m.ReadStallRatio ]

\* ------------------------------------------------------------------------
\* State
\* ------------------------------------------------------------------------
Streams == {"s1", "s2"}      \* keys a configuration may register
Slots == {1, 2}              \* places for cycles that run at the same time
Workers == Slots \X Streams  \* the goroutine of one cycle for one stream
NoWorker == <<0, "none">>
Fields == {"codec"}          \* snapshot fields written outside the commit

VARIABLES
  config,         \* Config.Exporter: MaxConcurrent, MaxRetries
  checkers,       \* Scheduler.checkers: the registered streams
  sc,             \* per stream, the StreamChecker's snapshot fields
  mu,             \* per stream, the holder of StreamChecker.mu's write lock
  schedPc,        \* Scheduler.Start: "start" before the first cycle, then "loop"
  cyclesStarted,  \* number of runCheckCycle goroutines launched so far
  cycle,          \* per slot: running, semaphore fill, success and fail counts
  pc,             \* per worker: its place in the goroutine / checkWithRetry / Check
  attempt,        \* per worker: checkWithRetry's loop variable
  hasVideo,       \* per worker: Check's hasVideo
  sample,         \* per worker: Check's counters once the loop has ended
  lastErr,        \* per worker: checkWithRetry's lastErr ("nil" when unset)
  clock,          \* time.Now(), counted in stamps taken
  gauges,         \* per stream, the gauge values set by the last scrape
  calls,          \* history, per worker: Check calls, successes, MarkFailed calls, sleeps, result
  wrote,          \* history, per worker: fields its current Check attempt wrote
  unlocked,       \* history: fields written by a goroutine not holding mu
  tally,          \* history, per stream: cycles marked failed since the last
                  \* success, appends to the bitrate history, commit order
  stopChan,       \* Scheduler.stopChan: "open" until Stop closes it
  tickerC,        \* ticks waiting in the ticker's channel (it buffers one)
  mainPc,         \* main: "serving" until the signal, "stopped" after Stop, "exited"
  now,            \* seconds since Start made its ticker
  nextTick,       \* the time of the ticker's next tick
  until,          \* per worker: when its attempt times out or its sleep ends
  entries,        \* main: the stream entries of the configuration still to add
  totalStreams,   \* main: the AddStream calls made so far
  descr,          \* per stored key: id, url, project, line and labels of its checker
  labelMaps,      \* the label maps made so far; a map value is an index into them
  metrics,        \* the slice GetAllMetrics is filling or has returned last
  visit,          \* the keys GetAllMetrics has still to visit, NoVisit outside a call
  loop,           \* per worker: the locals of its Check attempt, times in seconds
  reads           \* per worker: the reads of the response body so far

vars == <<config, checkers, sc, mu, schedPc, cyclesStarted, cycle, pc, attempt,
          hasVideo, sample, lastErr, clock, gauges, calls, wrote, unlocked, tally,
          stopChan, tickerC, mainPc, now, nextTick, until,
          entries, totalStreams, descr, labelMaps, metrics, visit, loop, reads>>

schedVars == <<schedPc, cyclesStarted>>
histVars == <<calls, wrote, unlocked, tally>>
stopVars == <<stopChan, tickerC, mainPc>>
timeVars == <<now, nextTick, until>>
storeVars == <<entries, totalStreams, descr, labelMaps, metrics, visit>>
restVars == <<stopVars, timeVars, storeVars, reads>>
envVars == <<stopChan, tickerC, mainPc, now, nextTick, until, storeVars, loop, reads>>

NoSample == [none |-> TRUE]
NoGauges == [none |-> TRUE]
NoCalls == [wraps |-> 0, checks |-> 0, oks |-> 0, marks |-> 0, sleeps |-> <<>>,
            last |-> "none", ret |-> "running"]
IdleCycle == [running |-> FALSE, seq |-> 0, sem |-> 0, successCount |-> 0,
              failCount |-> 0]
NoTally == [failed |-> 0, pushed |-> 0, latest |-> 0, inverted |-> FALSE]
\* Check's locals at its first line, and outside Check
NewAttempt ==
  [at |-> "request", why |-> "none", t |-> 0, response |-> 0, sampleStart |-> 0,
   packetCount |-> 0, videoCount |-> 0, audioCount |-> 0, keyframeCount |-> 0,
   totalBytes |-> 0, firstDTS |-> 0, lastDTS |-> 0, firstRead |-> FALSE, ttfb |-> 0,
   stallCount |-> 0, maxStall |-> 0, totalStall |-> 0]
NoAttempt == [NewAttempt EXCEPT !.at = "idle"]
NoVisit == {"none"}       \* no key: GetAllMetrics is not running

StreamOf(w) == w[2]
SlotOf(w) == w[1]

\* ------------------------------------------------------------------------
\* Inputs: what one Check attempt can observe
\* ------------------------------------------------------------------------
\* the error returns of Check
ErrRequest == "create request"
ErrTimeout == "request timeout"
ErrConnect == "connect"
ErrStatus == "http status"
ErrRead == "read packet"
ErrNoVideo == "no video"
AllErrors == {ErrRequest, ErrTimeout, ErrConnect, ErrStatus, ErrRead, ErrNoVideo}

Sample(pk, v, a, k, bytes, d0, d1, dur, stalls, maxSt, totSt) ==
  [ packetCount |-> pk, videoCount |-> v, audioCount |-> a, keyframeCount |-> k,
    totalBytes |-> bytes, firstDTS |-> d0, lastDTS |-> d1, duration |-> dur,
    response |-> 1, firstRead |-> TRUE, ttfb |-> 2,
    stallCount |-> stalls, maxStall |-> maxSt, totalStall |-> totSt ]

\* 250 video packets, 10 keyframes, 10 s of DTS, 3125000 bytes, no stall
SampleGood == Sample(300, 250, 50, 10, 2500, 0, 100, 100, 0, 0, 0)
\* 200 video packets, 4 keyframes, 10 s of DTS, 500000 bytes
SampleFair == Sample(200, 200, 0, 4, 400, 0, 100, 100, 0, 0, 0)
\* the first one with 6 s of stalls in 10 s
SampleJitter == Sample(300, 250, 50, 10, 2500, 0, 100, 100, 15, 4, 60)
\* stalls that add up to more than the elapsed time
SampleOverStall == Sample(300, 250, 50, 10, 2500, 0, 100, 100, 3, 50, 120)
\* one keyframe only: successful, not playable
SampleOneKey == Sample(60, 50, 10, 1, 100, 0, 50, 200, 0, 0, 0)
\* a single video packet, no DTS window, no time elapsed
SampleInstant == Sample(1, 1, 0, 0, 1, 7, 7, 0, 0, 0, 3)
\* a single video packet, no DTS window, rate from the wall clock
SampleNoDts == Sample(12, 11, 1, 2, 300, 7, 7, 100, 1, 3, 3)

\* 25 fps and 1300000 bps, no stall
SampleRate13 == Sample(300, 250, 50, 10, 1300, 0, 100, 100, 0, 0, 0)
\* 25 fps and 2300000 bps
SampleRate23 == Sample(300, 250, 50, 10, 2300, 0, 100, 100, 0, 0, 0)
\* 25 fps and 1700000 bps
SampleRate17 == Sample(300, 250, 50, 10, 1700, 0, 100, 100, 0, 0, 0)
\* 25 fps and 700000 bps
SampleRate7 == Sample(300, 250, 50, 10, 700, 0, 100, 100, 0, 0, 0)
\* exactly 25 fps and 600000 bps
SampleEdgeGood == Sample(300, 250, 50, 10, 600, 0, 100, 100, 0, 0, 0)
\* 20 fps and 700000 bps
SampleFairFps == Sample(200, 200, 0, 4, 700, 0, 100, 100, 0, 0, 0)
\* 25 fps and 1300000 bps, stalled for exactly half of the 10 s
SampleHalfStall == Sample(300, 250, 50, 10, 1300, 0, 100, 100, 5, 20, 50)
\* the same, stalled for 5.1 s of the 10 s
SampleOverHalf == Sample(300, 250, 50, 10, 1300, 0, 100, 100, 5, 20, 51)

SchedSamples == {SampleGood}
\* 23, 23, 17, 17 has CV exactly 0.15 and 13, 13, 7, 7 exactly 0.30
StabilitySamples == {SampleRate23, SampleRate17, SampleRate13, SampleRate7}
ScoreSamples == {SampleRate13, SampleRate7, SampleEdgeGood, SampleFairFps, SampleFair,
                 SampleOneKey, SampleHalfStall, SampleOverHalf}
StoreSamples == {SampleGood, SampleFair, SampleInstant}
ScrapeSamples == {SampleGood, SampleOneKey}
AllSamples == {SampleGood, SampleFair, SampleJitter, SampleOverStall,
               SampleOneKey, SampleInstant, SampleNoDts}

\* ------------------------------------------------------------------------
\* The configuration
\* ------------------------------------------------------------------------
\* yaml.Unmarshal into a zero Config: a key the file omits leaves Go's zero value
Setting(file, key) == IF key \in DOMAIN file THEN file[key] ELSE 0

\* LoadConfig: the exporter section as the core reads it; no default is filled in
LoadConfig(file) ==
  [ CheckInterval |-> Setting(file, "check_interval"),
    SampleDuration |-> Setting(file, "sample_duration"),
    MinKeyframes |-> Setting(file, "min_keyframes"),
    MaxConcurrent |-> Setting(file, "max_concurrent"),
    MaxRetries |-> Setting(file, "max_retries"),
    StallThresholdMs |-> Setting(file, "stall_threshold_ms") ]

\* the sampling time Check and checkWithRetry use: 10 s unless configured
SampleDurationSec(cfg) ==
  IF cfg.SampleDuration > 0 THEN cfg.SampleDuration ELSE DefaultSampleDuration

\* the keyframes Check waits for: 2 unless configured
MinKeyframesOf(cfg) ==
  IF cfg.MinKeyframes > 0 THEN cfg.MinKeyframes ELSE DefaultMinKeyframes

\* getStallThreshold, in ms: 200 unless configured
StallThreshold(cfg) ==
  IF cfg.StallThresholdMs > 0 THEN cfg.StallThresholdMs ELSE DefaultStallMs

\* checkWithRetry's timeout of one attempt, in seconds
Timeout(cfg) ==
  IF cfg.CheckInterval > LongInterval
  THEN cfg.CheckInterval - TimeoutMargin
  ELSE SampleDurationSec(cfg) + TimeoutMargin

\* ------------------------------------------------------------------------
\* Initial states
\* ------------------------------------------------------------------------
InitRun(files) ==
  /\ config \in {LoadConfig(f) : f \in files}
  /\ sc = [s \in Streams |-> NewStreamChecker]
  /\ mu = [s \in Streams |-> NoWorker]
  /\ schedPc = "start"
  /\ cyclesStarted = 0
  /\ cycle = [k \in Slots |-> IdleCycle]
  /\ pc = [w \in Workers |-> "idle"]
  /\ attempt = [w \in Workers |-> 0]
  /\ hasVideo = [w \in Workers |-> FALSE]
  /\ sample = [w \in Workers |-> NoSample]
  /\ lastErr = [w \in Workers |-> "nil"]
  /\ clock = 1
  /\ gauges = [s \in Streams |-> NoGauges]
  /\ calls = [w \in Workers |-> NoCalls]
  /\ wrote = [w \in Workers |-> {}]
  /\ unlocked = {}
  /\ tally = [s \in Streams |-> NoTally]
  /\ stopChan = "open"
  /\ tickerC = 0
  /\ mainPc = "serving"
  /\ now = 0
  /\ nextTick = 0
  /\ until = [w \in Workers |-> 0]
  /\ loop = [w \in Workers |-> NoAttempt]
  /\ reads = [w \in Workers |-> <<>>]

\* strings.ToLower, on the group names the configurations of this model use
ToLower(g) ==
  CASE g = "CDN" -> "cdn"
    [] g = "Source" -> "source"
    [] OTHER -> g

\* main's label map of one entry: the user's tags, the shorthand tag unless
\* the tags have one, then the three system labels over them
Tags(projectID, line, e) ==
  LET short == IF e.Tag # "" /\ "tag" \notin DOMAIN e.Tags
               THEN ("tag" :> e.Tag) @@ e.Tags
               ELSE e.Tags
  IN  ("project" :> projectID) @@ ("line" :> line) @@ ("id" :> e.ID) @@ short

\* fmt.Sprintf("%s::%s::%s", project, line, url)
Key(project, line, url) == project \o "::" \o line \o "::" \o url

\* a stream entry of the configuration: its project, its group and the entry
Entry(project, group, id, url) ==
  [project |-> project, group |-> group, ID |-> id, URL |-> url, Tags |-> <<>>,
   Tag |-> ""]

\* the immutable fields NewStreamChecker is given
Descriptor(id, url, project, line, labels) ==
  [id |-> id, url |-> url, project |-> project, line |-> line, labels |-> labels]

\* the keys of Streams, written "s1" and "s2" for short, in the order main
\* added them
Registered == SelectSeq(<<"s1", "s2">>, LAMBDA s : s \in checkers)

\* the store after main's loop over a configuration with one entry per key of
\* checkers
Loaded ==
  /\ entries = <<>>
  /\ totalStreams = Len(Registered)
  /\ descr = [s \in checkers |->
                Descriptor(s, s, "p", "cdn",
                           CHOOSE i \in 1 .. Len(Registered) : Registered[i] = s)]
  /\ labelMaps = [i \in 1 .. Len(Registered) |->
                    Tags("p", "cdn", Entry("p", "cdn", Registered[i], Registered[i]))]
  /\ metrics = <<>>
  /\ visit = NoVisit

\* the store before main's loop over the entries of one of the configurations
NotLoaded(configurations) ==
  /\ entries \in configurations
  /\ totalStreams = 0
  /\ descr = <<>>
  /\ labelMaps = <<>>
  /\ metrics = <<>>
  /\ visit = NoVisit

InitConfig(files) == InitRun(files) /\ Loaded

\* a configuration file that sets the four scheduling settings
FullFile(interval, sampleSec, maxConcurrent, retries) ==
  [check_interval |-> interval, sample_duration |-> sampleSec,
   max_concurrent |-> maxConcurrent, max_retries |-> retries]

\* the file without the settings named in keys
Omit(file, keys) == [k \in DOMAIN file \ keys |-> file[k]]

\* a file that sets every exporter setting
EveryKey ==
  [check_interval |-> 30, sample_duration |-> 8, min_keyframes |-> 3,
   max_concurrent |-> 2, max_retries |-> 1, stall_threshold_ms |-> 300]

\* files that leave out some of the scheduling settings, and the sampling
\* settings with them or not
SomeKeys ==
  {Omit(EveryKey, a \cup b) :
     a \in SUBSET {"check_interval", "max_concurrent", "max_retries"},
     b \in {{}, {"sample_duration", "min_keyframes", "stall_threshold_ms"}}}

InitWith(streams, maxConcurrent, retries) ==
  /\ checkers = streams
  /\ InitConfig({FullFile(30, 10, maxConcurrent, r) : r \in retries})

\* ------------------------------------------------------------------------
\* Scheduler.Start and runCheckCycle
\* ------------------------------------------------------------------------
InSlot(k) == {w \in Workers : SlotOf(w) = k /\ StreamOf(w) \in checkers}

\* runCheckCycle up to wg.Wait(): copy the checkers, make this cycle's own
\* semaphore, start one goroutine per checker
RunCheckCycle(k) ==
  /\ ~cycle[k].running
  /\ cycle' = [cycle EXCEPT ![k] = [running |-> TRUE, seq |-> cyclesStarted + 1,
                                    sem |-> 0, successCount |-> 0,
                                    failCount |-> 0]]
  /\ pc' = [w \in Workers |-> IF w \in InSlot(k) THEN "acquire" ELSE pc[w]]
  /\ attempt' = [w \in Workers |-> IF w \in InSlot(k) THEN 0 ELSE attempt[w]]
  /\ hasVideo' = [w \in Workers |-> IF w \in InSlot(k) THEN FALSE ELSE hasVideo[w]]
  /\ sample' = [w \in Workers |-> IF w \in InSlot(k) THEN NoSample ELSE sample[w]]
  /\ lastErr' = [w \in Workers |-> IF w \in InSlot(k) THEN "nil" ELSE lastErr[w]]
  /\ calls' = [w \in Workers |-> IF w \in InSlot(k) THEN NoCalls ELSE calls[w]]
  /\ wrote' = [w \in Workers |-> IF w \in InSlot(k) THEN {} ELSE wrote[w]]
  /\ cyclesStarted' = cyclesStarted + 1
  /\ UNCHANGED <<config, checkers, sc, mu, clock, gauges, unlocked, tally>>

\* the lowest slot with no running cycle
FreeSlot(slots, k) ==
  /\ k \in slots
  /\ ~cycle[k].running
  /\ \A j \in slots : j < k => cycle[j].running

\* Start: the first cycle at once, then the ticker and its loop; time.NewTicker
\* panics on an interval that is not positive
Start ==
  /\ schedPc = "start"
  /\ entries = <<>>
  /\ schedPc' = IF config.CheckInterval > 0 THEN "loop" ELSE "panic"
  /\ RunCheckCycle(1)

\* Start's loop: a tick of the ticker starts a further cycle, whether or not
\* the cycles before it have returned
Tick(slots, maxCycles) ==
  /\ schedPc = "loop"
  /\ cyclesStarted < maxCycles
  /\ schedPc' = schedPc
  /\ \E k \in slots : FreeSlot(slots, k) /\ RunCheckCycle(k)

\* runCheckCycle after wg.Wait(): every goroutine of the cycle has returned
CycleDone(k) ==
  /\ cycle[k].running
  /\ \A w \in InSlot(k) : pc[w] = "done"
  /\ cycle' = [cycle EXCEPT ![k].running = FALSE]
  /\ pc' = [w \in Workers |-> IF w \in InSlot(k) THEN "idle" ELSE pc[w]]
  /\ UNCHANGED <<config, checkers, sc, mu, schedVars, attempt, hasVideo, sample,
                 lastErr, clock, gauges, histVars>>

\* ------------------------------------------------------------------------
\* The goroutine of one stream in one cycle: semaphore, checkWithRetry, Check
\* ------------------------------------------------------------------------
\* (variant: a delay of 2^(attempt+1) seconds)
RetryDelayShifted(a) == 2 ^ (a + 1)

\* time.Duration(1<<uint(attempt)) * time.Second, in seconds; the product stays
\* inside int64 for attempt <= 33, and the attempts of this model stay below
RetryDelaySeconds(a) == 2 ^ a

\* (variant: a loop that stops one attempt early)
MoreAttemptsShort(a) == a < config.MaxRetries

\* the loop condition of checkWithRetry
MoreAttempts(a) == a <= config.MaxRetries

\* a slot of the cycle's semaphore is free
SemaphoreFree(k) == cycle[k].sem < config.MaxConcurrent

\* "semaphore <- struct{}{}", then checkWithRetry up to its first Check call
Acquire(w) ==
  /\ pc[w] = "acquire"
  /\ SemaphoreFree(SlotOf(w))
  /\ cycle' = [cycle EXCEPT ![SlotOf(w)].sem = @ + 1]
  /\ IF MoreAttempts(0)
     THEN /\ pc' = [pc EXCEPT ![w] = "check"]
          /\ calls' = [calls EXCEPT ![w].wraps = @ + 1, ![w].checks = @ + 1]
     ELSE /\ pc' = [pc EXCEPT ![w] = "markfailed"]
          /\ calls' = [calls EXCEPT ![w].wraps = @ + 1]
  /\ UNCHANGED <<config, checkers, sc, mu, schedVars, attempt, hasVideo, sample,
                 lastErr, clock, gauges, wrote, unlocked, tally>>

\* the string header another goroutine's unlocked store can leave behind
CodecStores(w) ==
  IF \E o \in Workers : o # w /\ mu[StreamOf(w)] = o /\ pc[o] = "mark2"
  THEN {"H264", "torn"}
  ELSE {"H264"}

\* Check's loop reads an H264 packet: hasVideo, and the codec tag when it is
\* empty - read and written without taking sc.mu
CheckReadVideo(w) ==
  LET s == StreamOf(w) IN
  /\ pc[w] = "check"
  /\ ~hasVideo[w] \/ sc[s].codec = ""
  /\ hasVideo' = [hasVideo EXCEPT ![w] = TRUE]
  /\ IF sc[s].codec = ""
     THEN /\ \E c \in CodecStores(w) : sc' = [sc EXCEPT ![s].codec = c]
          /\ wrote' = [wrote EXCEPT ![w] = @ \cup {"codec"}]
          /\ unlocked' = IF mu[s] = w THEN unlocked ELSE unlocked \cup {"codec"}
     ELSE UNCHANGED <<sc, wrote, unlocked>>
  /\ UNCHANGED <<config, checkers, mu, schedVars, cycle, pc, attempt, sample,
                 lastErr, clock, gauges, calls, tally>>

\* the errors Check can return at this point: once a video packet was read,
\* only a failing ReadPacket is left
ErrorsNow(w, errs) == IF hasVideo[w] THEN errs \cap {ErrRead} ELSE errs

\* Check returns an error; checkWithRetry keeps it and steps its loop
CheckFail(w, errs) ==
  /\ pc[w] = "check"
  /\ \E e \in ErrorsNow(w, errs) :
       /\ lastErr' = [lastErr EXCEPT ![w] = e]
       /\ calls' = [calls EXCEPT ![w].last = e]
  /\ attempt' = [attempt EXCEPT ![w] = @ + 1]
  /\ pc' = [pc EXCEPT ![w] = IF MoreAttempts(attempt[w] + 1)
                             THEN "backoff" ELSE "markfailed"]
  /\ UNCHANGED <<config, checkers, sc, mu, schedVars, cycle, hasVideo, sample,
                 clock, gauges, wrote, unlocked, tally>>

\* the sleep before a further attempt, then the next Check call
\* (variant: the next attempt follows at once)
BackoffNoSleep(w) ==
  /\ pc[w] = "backoff"
  /\ calls' = [calls EXCEPT ![w].checks = @ + 1]
  /\ pc' = [pc EXCEPT ![w] = "check"]
  /\ hasVideo' = [hasVideo EXCEPT ![w] = FALSE]
  /\ wrote' = [wrote EXCEPT ![w] = {}]
  /\ UNCHANGED <<config, checkers, sc, mu, schedVars, cycle, attempt, sample,
                 lastErr, clock, gauges, unlocked, tally>>

Backoff(w) ==
  /\ pc[w] = "backoff"
  /\ calls' = [calls EXCEPT ![w].sleeps = Append(@, RetryDelaySeconds(attempt[w])),
                            ![w].checks = @ + 1]
  /\ pc' = [pc EXCEPT ![w] = "check"]
  /\ hasVideo' = [hasVideo EXCEPT ![w] = FALSE]
  /\ wrote' = [wrote EXCEPT ![w] = {}]
  /\ UNCHANGED <<config, checkers, sc, mu, schedVars, cycle, attempt, sample,
                 lastErr, clock, gauges, unlocked, tally>>

\* sc.mu.Lock() can go through: no goroutine holds the write lock
LockFree(s) == mu[s] = NoWorker

\* (variant: a GetMetrics that does not take the read lock)
CanRLockAlways(s) == TRUE

\* sc.mu.RLock() can go through
CanRLock(s) == mu[s] = NoWorker

\* Check's loop has ended with video seen: Lock, then the first half of the commit
CheckCommitBegin(w, samples) ==
  LET s == StreamOf(w) IN
  /\ pc[w] = "check"
  /\ hasVideo[w]
  /\ LockFree(s)
  /\ mu' = [mu EXCEPT ![s] = w]
  /\ \E m \in samples :
       /\ sample' = [sample EXCEPT ![w] = m]
       /\ sc' = [sc EXCEPT ![s] = CommitCounters(@, m, clock)]
  /\ clock' = clock + 1
  /\ pc' = [pc EXCEPT ![w] = "commit2"]
  /\ UNCHANGED <<config, checkers, schedVars, cycle, attempt, hasVideo, lastErr,
                 gauges, histVars>>

\* (variant: the slot goes back only after a success)
ReleaseOnSuccess(k, err) ==
  [cycle EXCEPT ![k].sem = IF err = "nil" THEN @ - 1 ELSE @,
                ![k].successCount = IF err = "nil" THEN @ + 1 ELSE @,
                ![k].failCount = IF err = "nil" THEN @ ELSE @ + 1]

\* the goroutine returns: its slot goes back, the cycle counts the result
Release(k, err) ==
  [cycle EXCEPT ![k].sem = @ - 1,
                ![k].successCount = IF err = "nil" THEN @ + 1 ELSE @,
                ![k].failCount = IF err = "nil" THEN @ ELSE @ + 1]

\* history: the cycle of slot k has committed to the stream, after the cycle
\* numbered latest did
Committed(t, k) ==
  [t EXCEPT !.latest = IF cycle[k].seq > @ THEN cycle[k].seq ELSE @,
            !.inverted = @ \/ cycle[k].seq < t.latest]

\* the second half of the commit, Unlock, return nil
\* (variant: the commit returns without the deferred Unlock)
CheckCommitEndNoUnlock(w) ==
  LET s == StreamOf(w) IN
  /\ pc[w] = "commit2"
  /\ sc' = [sc EXCEPT ![s] = CommitDerived(@, sample[w])]
  /\ sample' = [sample EXCEPT ![w] = NoSample]
  /\ pc' = [pc EXCEPT ![w] = "done"]
  /\ cycle' = Release(SlotOf(w), "nil")
  /\ calls' = [calls EXCEPT ![w].oks = @ + 1, ![w].last = "nil", ![w].ret = "nil"]
  /\ tally' = [tally EXCEPT ![s] = Committed(@, SlotOf(w)),
                            ![s].failed = 0,
                            ![s].pushed = IF sc'[s].bitrateHistory = sc[s].bitrateHistory
                                          THEN @ ELSE @ + 1]
  /\ UNCHANGED <<config, checkers, mu, schedVars, attempt, hasVideo, lastErr, clock,
                 gauges, wrote, unlocked>>

CheckCommitEnd(w) ==
  LET s == StreamOf(w) IN
  /\ pc[w] = "commit2"
  /\ sc' = [sc EXCEPT ![s] = CommitDerived(@, sample[w])]
  /\ mu' = [mu EXCEPT ![s] = NoWorker]
  /\ sample' = [sample EXCEPT ![w] = NoSample]
  /\ pc' = [pc EXCEPT ![w] = "done"]
  /\ cycle' = Release(SlotOf(w), "nil")
  /\ calls' = [calls EXCEPT ![w].oks = @ + 1, ![w].last = "nil", ![w].ret = "nil"]
  /\ tally' = [tally EXCEPT ![s] = Committed(@, SlotOf(w)),
                            ![s].failed = 0,
                            ![s].pushed = IF sc'[s].bitrateHistory = sc[s].bitrateHistory
                                          THEN @ ELSE @ + 1]
  /\ UNCHANGED <<config, checkers, schedVars, attempt, hasVideo, lastErr, clock,
                 gauges, wrote, unlocked>>

\* (variant: a MarkFailed that zeroes every stream of the store)
MarkFailedBeginAll(w) ==
  LET s == StreamOf(w) IN
  /\ pc[w] = "markfailed"
  /\ LockFree(s)
  /\ mu' = [mu EXCEPT ![s] = w]
  /\ sc' = [b \in Streams |-> MarkFailedHead(sc[b])]
  /\ pc' = [pc EXCEPT ![w] = "mark2"]
  /\ calls' = [calls EXCEPT ![w].marks = @ + 1]
  /\ UNCHANGED <<config, checkers, schedVars, cycle, attempt, hasVideo, sample,
                 lastErr, clock, gauges, wrote, unlocked, tally>>

\* checkWithRetry's loop is over: MarkFailed takes the lock and starts
MarkFailedBegin(w) ==
  LET s == StreamOf(w) IN
  /\ pc[w] = "markfailed"
  /\ LockFree(s)
  /\ mu' = [mu EXCEPT ![s] = w]
  /\ sc' = [sc EXCEPT ![s] = MarkFailedHead(@)]
  /\ pc' = [pc EXCEPT ![w] = "mark2"]
  /\ calls' = [calls EXCEPT ![w].marks = @ + 1]
  /\ UNCHANGED <<config, checkers, schedVars, cycle, attempt, hasVideo, sample,
                 lastErr, clock, gauges, wrote, unlocked, tally>>

\* the rest of MarkFailed, Unlock, "return lastErr"
MarkFailedEnd(w) ==
  LET s == StreamOf(w) IN
  /\ pc[w] = "mark2"
  /\ sc' = [sc EXCEPT ![s] = MarkFailedRest(@, clock)]
  /\ clock' = clock + 1
  /\ mu' = [mu EXCEPT ![s] = NoWorker]
  /\ pc' = [pc EXCEPT ![w] = "done"]
  /\ cycle' = Release(SlotOf(w), lastErr[w])
  /\ calls' = [calls EXCEPT ![w].ret = lastErr[w]]
  /\ tally' = [tally EXCEPT ![s] = Committed(@, SlotOf(w)),
                            ![s].failed = @ + 1]
  /\ UNCHANGED <<config, checkers, schedVars, attempt, hasVideo, sample, lastErr,
                 gauges, wrote, unlocked>>

\* ------------------------------------------------------------------------
\* A scrape: GetMetrics under the read lock, then updateMetrics sets the gauges
\* ------------------------------------------------------------------------
Scrape(s) ==
  /\ s \in checkers
  /\ CanRLock(s)
  /\ gauges' = [gauges EXCEPT ![s] = UpdateMetrics(GetMetrics(sc[s]))]
  /\ UNCHANGED <<config, checkers, sc, mu, schedVars, cycle, pc, attempt, hasVideo,
                 sample, lastErr, clock, calls, wrote, unlocked, tally>>

\* ------------------------------------------------------------------------
\* The store: main's loop over the stream entries, AddStream, GetAllMetrics
\* ------------------------------------------------------------------------
\* one round of main's loop: the label map, then AddStream, which stores a new
\* StreamChecker under the key of (project, line, url) whatever is there
AddStream ==
  /\ entries # <<>>
  /\ schedPc = "start"
  /\ LET e == Head(entries)
         line == ToLower(e.group)
         key == Key(e.project, line, e.URL)
     IN  /\ labelMaps' = Append(labelMaps, Tags(e.project, line, e))
         /\ descr' = (key :> Descriptor(e.ID, e.URL, e.project, line, Len(labelMaps) + 1))
                        @@ descr
         /\ sc' = (key :> NewStreamChecker) @@ sc
         /\ mu' = (key :> NoWorker) @@ mu
         /\ checkers' = checkers \cup {key}
  /\ totalStreams' = totalStreams + 1
  /\ entries' = Tail(entries)
  /\ UNCHANGED <<loop, reads, config, schedVars, cycle, pc, attempt, hasVideo, sample, lastErr,
                 clock, gauges, histVars, stopVars, timeVars, metrics, visit>>

\* the keys left after s, NoVisit when s was the last: GetAllMetrics returns
Remaining(keys, s) == IF keys \ {s} = {} THEN NoVisit ELSE keys \ {s}

\* GetAllMetrics starts (the HTTP server runs once main's loop is over): an
\* empty slice, every checker of the map to visit
GetAllMetrics(maxCalls) ==
  /\ visit = NoVisit
  /\ entries = <<>>
  /\ Len(labelMaps) < totalStreams + maxCalls * Cardinality(checkers)
  /\ metrics' = <<>>
  /\ visit' = IF checkers = {} THEN NoVisit ELSE checkers
  /\ UNCHANGED <<loop, reads, config, checkers, sc, mu, schedVars, cycle, pc, attempt, hasVideo,
                 sample, lastErr, clock, gauges, histVars, stopVars, timeVars,
                 entries, totalStreams, descr, labelMaps>>

\* (variant: the returned metrics carry the checker's own label map)
LabelsOwn(s) == descr[s].labels

\* the map GetMetrics returns: labelsCopy, the one it has just made
LabelsCopy(s) == Len(labelMaps) + 1

\* StreamMetrics: the descriptor fields and the snapshot fields by value, the
\* labels as a map value
StreamMetrics(s) ==
  [ID |-> descr[s].id, URL |-> descr[s].url, Project |-> descr[s].project,
   Line |-> descr[s].line, Labels |-> LabelsCopy(s)] @@ GetMetrics(sc[s])

\* GetAllMetrics visits one checker: GetMetrics under the checker's read lock
\* copies the labels and the fields; after the last checker the slice is returned
GetMetricsOf(s) ==
  /\ visit # NoVisit
  /\ s \in visit
  /\ CanRLock(s)
  /\ labelMaps' = Append(labelMaps, labelMaps[descr[s].labels])
  /\ metrics' = Append(metrics, StreamMetrics(s))
  /\ visit' = Remaining(visit, s)
  /\ UNCHANGED <<loop, reads, config, checkers, sc, mu, schedVars, cycle, pc, attempt, hasVideo,
                 sample, lastErr, clock, gauges, histVars, stopVars, timeVars,
                 entries, totalStreams, descr>>

\* the caller of GetAllMetrics writes to what it was given: a label of a
\* returned map and a field of the returned element
Mutate ==
  /\ visit = NoVisit
  /\ \E i \in 1 .. Len(metrics) :
       /\ metrics[i].Quality # "changed"
       /\ labelMaps' = [labelMaps EXCEPT ![metrics[i].Labels]["id"] = "changed"]
       /\ metrics' = [metrics EXCEPT ![i].Quality = "changed"]
  /\ UNCHANGED <<loop, reads, config, checkers, sc, mu, schedVars, cycle, pc, attempt, hasVideo,
                 sample, lastErr, clock, gauges, histVars, stopVars, timeVars,
                 entries, totalStreams, descr, visit>>

\* ------------------------------------------------------------------------
\* Shutdown: Scheduler.Stop, the select of Start's loop, the end of main
\* ------------------------------------------------------------------------
\* main gets SIGINT or SIGTERM and calls scheduler.Stop(): close(stopChan)
Stop ==
  /\ mainPc = "serving"
  /\ mainPc' = "stopped"
  /\ stopChan' = "closed"
  /\ UNCHANGED <<loop, reads, storeVars, config, checkers, sc, mu, schedVars, cycle, pc, attempt, hasVideo,
                 sample, lastErr, clock, gauges, histVars, tickerC, timeVars>>

\* the runtime's timer sends on ticker.C, which buffers one tick; a tick that
\* finds the buffer full is dropped
TickerSend ==
  /\ schedPc = "loop"
  /\ tickerC = 0
  /\ tickerC' = 1
  /\ UNCHANGED <<loop, reads, storeVars, config, checkers, sc, mu, schedVars, cycle, pc, attempt, hasVideo,
                 sample, lastErr, clock, gauges, histVars, stopChan, mainPc,
                 timeVars>>

\* Start's select takes "case <-ticker.C": a further cycle.  With the stop
\* channel closed as well, select picks one of the two ready cases
LoopTick(slots, maxCycles) ==
  /\ tickerC = 1
  /\ Tick(slots, maxCycles)
  /\ tickerC' = 0
  /\ UNCHANGED <<loop, reads, storeVars, stopChan, mainPc, timeVars>>

\* Start's select takes "case <-s.stopChan": Start returns, its ticker stops
LoopStop ==
  /\ schedPc = "loop"
  /\ stopChan = "closed"
  /\ schedPc' = "returned"
  /\ UNCHANGED <<loop, reads, storeVars, config, checkers, sc, mu, cyclesStarted, cycle, pc, attempt,
                 hasVideo, sample, lastErr, clock, gauges, histVars, stopVars,
                 timeVars>>

\* the process ends: every goroutine that has not returned stops where it is
ProcessEnds ==
  /\ mainPc' = "exited"
  /\ schedPc' = IF schedPc \in {"returned", "panic"} THEN schedPc ELSE "killed"
  /\ pc' = [w \in Workers |-> IF pc[w] \in {"idle", "done"} THEN pc[w] ELSE "killed"]
  /\ UNCHANGED <<loop, reads, storeVars, config, checkers, sc, mu, cyclesStarted, cycle, attempt, hasVideo,
                 sample, lastErr, clock, gauges, histVars, stopChan, tickerC,
                 timeVars>>

\* main returns right after scheduler.Stop(): it waits for no goroutine
MainReturn ==
  /\ mainPc = "stopped"
  /\ ProcessEnds

\* the panic of time.NewTicker in Start's goroutine ends the process
Panic ==
  /\ schedPc = "panic"
  /\ mainPc # "exited"
  /\ ProcessEnds

\* the process is running
Alive == mainPc # "exited"

\* ------------------------------------------------------------------------
\* Time: the ticker, the timeout of an attempt and the sleeps, in seconds
\* ------------------------------------------------------------------------
\* the goroutine is at a step that takes no time the ticker can see
Instant(w) ==
  \/ pc[w] \in {"commit2", "markfailed", "mark2"}
  \/ pc[w] = "acquire" /\ SemaphoreFree(SlotOf(w))

\* wg.Wait() of the cycle can return
CanFinish(k) == cycle[k].running /\ \A w \in InSlot(k) : pc[w] = "done"

\* the times at which something is due: the next tick while the loop still
\* launches cycles, the timeout of each running attempt, the end of each sleep
Pending(maxCycles) ==
  (IF cyclesStarted < maxCycles THEN {nextTick} ELSE {})
    \cup {until[w] : w \in {v \in Workers : pc[v] \in {"check", "backoff"}}}

Earliest(S) == CHOOSE t \in S : \A u \in S : t <= u

\* time passes up to the next thing due (an attempt ends at one of these times)
Advance(maxCycles) ==
  /\ schedPc = "loop"
  /\ \A w \in Workers : ~Instant(w)
  /\ \A k \in Slots : ~CanFinish(k)
  /\ Pending(maxCycles) # {}
  /\ \A t \in Pending(maxCycles) : t > now
  /\ now' = Earliest(Pending(maxCycles))
  /\ UNCHANGED <<loop, reads, storeVars, config, checkers, sc, mu, schedVars, cycle, pc, attempt, hasVideo,
                 sample, lastErr, clock, gauges, histVars, stopVars, nextTick,
                 until>>

\* Start, with time.NewTicker(CheckInterval seconds) made at time 0
TimedStart ==
  /\ Start
  /\ now' = 0
  /\ nextTick' = config.CheckInterval
  /\ UNCHANGED <<loop, reads, storeVars, stopVars, until>>

\* the tick that is due starts a cycle; the ticker's next tick is one interval on
TimedTick(slots, maxCycles) ==
  /\ now = nextTick
  /\ Tick(slots, maxCycles)
  /\ nextTick' = nextTick + config.CheckInterval
  /\ UNCHANGED <<loop, reads, storeVars, stopVars, now, until>>

\* the first attempt starts: its context ends Timeout seconds from now
TimedAcquire(w) ==
  /\ Acquire(w)
  /\ until' = [until EXCEPT ![w] = now + Timeout(config)]
  /\ UNCHANGED <<loop, reads, storeVars, stopVars, now, nextTick>>

\* an attempt fails no later than its timeout; a sleep of 2^attempt seconds
\* follows when the loop goes on
TimedCheckFail(w, errs) ==
  /\ now <= until[w]
  /\ CheckFail(w, errs)
  /\ until' = [until EXCEPT ![w] = IF pc'[w] = "backoff"
                                   THEN now + RetryDelaySeconds(attempt'[w])
                                   ELSE @]
  /\ UNCHANGED <<loop, reads, storeVars, stopVars, now, nextTick>>

\* the sleep is over: the next attempt starts
TimedBackoff(w) ==
  /\ now = until[w]
  /\ Backoff(w)
  /\ until' = [until EXCEPT ![w] = now + Timeout(config)]
  /\ UNCHANGED <<loop, reads, storeVars, stopVars, now, nextTick>>

\* seconds since the attempt of w started
Elapsed(w) == now - (until[w] - Timeout(config))

\* an attempt succeeds before its timeout, after at least a second of this
\* clock; "duration" is the time the attempt took
TimedCheckCommitBegin(w, samples) ==
  /\ now <= until[w]
  /\ Elapsed(w) > 0
  /\ CheckCommitBegin(w, {[m EXCEPT !.duration = Elapsed(w) * UnitsPerSecond] :
                            m \in samples})
  /\ UNCHANGED envVars

\* ------------------------------------------------------------------------
\* Specifications
\* ------------------------------------------------------------------------
\* The scheduler: two streams, max_concurrent = 1, cycles that may overlap
Init == InitWith(Streams, 1, {0})

Next ==
  \/ Start /\ UNCHANGED envVars
  \/ Tick(Slots, MaxCycles) /\ UNCHANGED envVars
  \/ \E k \in Slots : CycleDone(k) /\ UNCHANGED envVars
  \/ \E w \in Workers : Acquire(w) /\ UNCHANGED envVars
  \/ \E w \in Workers : CheckReadVideo(w) /\ UNCHANGED envVars
  \/ \E w \in Workers : CheckFail(w, {ErrConnect, ErrRead}) /\ UNCHANGED envVars
  \/ \E w \in Workers : CheckCommitBegin(w, SchedSamples) /\ UNCHANGED envVars
  \/ \E w \in Workers : CheckCommitEnd(w) /\ UNCHANGED envVars
  \/ \E w \in Workers : MarkFailedBegin(w) /\ UNCHANGED envVars
  \/ \E w \in Workers : MarkFailedEnd(w) /\ UNCHANGED envVars

Spec == Init /\ [][Next]_vars

\* The retry wrapper: one stream, cycles one after the other, every
\* max_retries from -1 up, every error and every sample
InitRetry == InitWith({"s1"}, 1, -1 .. MaxRetriesBound)

NextRetry ==
  \/ Start /\ UNCHANGED envVars
  \/ Tick({1}, MaxRetryCycles) /\ UNCHANGED envVars
  \/ \E k \in Slots : CycleDone(k) /\ UNCHANGED envVars
  \/ \E w \in Workers : Acquire(w) /\ UNCHANGED envVars
  \/ \E w \in Workers : CheckReadVideo(w) /\ UNCHANGED envVars
  \/ \E w \in Workers : CheckFail(w, AllErrors) /\ UNCHANGED envVars
  \/ \E w \in Workers : Backoff(w) /\ UNCHANGED envVars
  \/ \E w \in Workers : CheckCommitBegin(w, AllSamples) /\ UNCHANGED envVars
  \/ \E w \in Workers : CheckCommitEnd(w) /\ UNCHANGED envVars
  \/ \E w \in Workers : MarkFailedBegin(w) /\ UNCHANGED envVars
  \/ \E w \in Workers : MarkFailedEnd(w) /\ UNCHANGED envVars

SpecRetry == InitRetry /\ [][NextRetry]_vars

\* The metric store of one stream over many cycles, one retry per cycle
InitStore == InitWith({"s1"}, 1, {1})

NextStore ==
  \/ Start /\ UNCHANGED envVars
  \/ Tick({1}, MaxStoreCycles) /\ UNCHANGED envVars
  \/ \E k \in Slots : CycleDone(k) /\ UNCHANGED envVars
  \/ \E w \in Workers : Acquire(w) /\ UNCHANGED envVars
  \/ \E w \in Workers : CheckReadVideo(w) /\ UNCHANGED envVars
  \/ \E w \in Workers : CheckFail(w, {ErrRead}) /\ UNCHANGED envVars
  \/ \E w \in Workers : Backoff(w) /\ UNCHANGED envVars
  \/ \E w \in Workers : CheckCommitBegin(w, StoreSamples) /\ UNCHANGED envVars
  \/ \E w \in Workers : CheckCommitEnd(w) /\ UNCHANGED envVars
  \/ \E w \in Workers : MarkFailedBegin(w) /\ UNCHANGED envVars
  \/ \E w \in Workers : MarkFailedEnd(w) /\ UNCHANGED envVars

SpecStore == InitStore /\ [][NextStore]_vars

\* Scrapes against overlapping cycles of one stream
InitScrape == InitWith({"s1"}, 1, {0})

NextScrape ==
  \/ Start /\ UNCHANGED envVars
  \/ Tick(Slots, MaxScrapeCycles) /\ UNCHANGED envVars
  \/ \E k \in Slots : CycleDone(k) /\ UNCHANGED envVars
  \/ \E w \in Workers : Acquire(w) /\ UNCHANGED envVars
  \/ \E w \in Workers : CheckReadVideo(w) /\ UNCHANGED envVars
  \/ \E w \in Workers : CheckFail(w, {ErrRead}) /\ UNCHANGED envVars
  \/ \E w \in Workers : CheckCommitBegin(w, ScrapeSamples) /\ UNCHANGED envVars
  \/ \E w \in Workers : CheckCommitEnd(w) /\ UNCHANGED envVars
  \/ \E w \in Workers : MarkFailedBegin(w) /\ UNCHANGED envVars
  \/ \E w \in Workers : MarkFailedEnd(w) /\ UNCHANGED envVars
  \/ \E s \in Streams : Scrape(s) /\ UNCHANGED envVars

SpecScrape == InitScrape /\ [][NextScrape]_vars

\* One stream under the ticker's clock: every interval, sampling time and
\* max_retries of TimedFiles, attempts that last up to their timeout
TimedFiles ==
  {FullFile(i, s, 1, r) : i \in {10, 30}, s \in {8, 10}, r \in {0, 1}}

InitTimed == checkers = {"s1"} /\ InitConfig(TimedFiles)

NextTimed ==
  \/ TimedStart
  \/ TimedTick(Slots, MaxTimedCycles)
  \/ Advance(MaxTimedCycles)
  \/ \E k \in Slots : CycleDone(k) /\ UNCHANGED envVars
  \/ \E w \in Workers : TimedAcquire(w)
  \/ \E w \in Workers : CheckReadVideo(w) /\ UNCHANGED envVars
  \/ \E w \in Workers : TimedCheckFail(w, {ErrTimeout, ErrRead})
  \/ \E w \in Workers : TimedBackoff(w)
  \/ \E w \in Workers : TimedCheckCommitBegin(w, SchedSamples)
  \/ \E w \in Workers : CheckCommitEnd(w) /\ UNCHANGED envVars
  \/ \E w \in Workers : MarkFailedBegin(w) /\ UNCHANGED envVars
  \/ \E w \in Workers : MarkFailedEnd(w) /\ UNCHANGED envVars

SpecTimed == InitTimed /\ [][NextTimed]_vars

\* Shutdown: one stream, the ticker's channel, the signal at any moment
InitStop == InitWith({"s1"}, 1, {0})

NextStop ==
  \/ Start /\ UNCHANGED envVars
  \/ TickerSend
  \/ LoopTick(Slots, MaxStopCycles)
  \/ LoopStop
  \/ Stop
  \/ MainReturn
  \/ \E k \in Slots : Alive /\ CycleDone(k) /\ UNCHANGED envVars
  \/ \E w \in Workers : Acquire(w) /\ UNCHANGED envVars
  \/ \E w \in Workers : CheckReadVideo(w) /\ UNCHANGED envVars
  \/ \E w \in Workers : CheckFail(w, {ErrRead}) /\ UNCHANGED envVars
  \/ \E w \in Workers : CheckCommitBegin(w, SchedSamples) /\ UNCHANGED envVars
  \/ \E w \in Workers : CheckCommitEnd(w) /\ UNCHANGED envVars
  \/ \E w \in Workers : MarkFailedBegin(w) /\ UNCHANGED envVars
  \/ \E w \in Workers : MarkFailedEnd(w) /\ UNCHANGED envVars

SpecStop == InitStop /\ [][NextStop]_vars

\* One cycle after the other over two streams, max_concurrent 1 or 2, with the
\* scheduling the Go runtime gives: a goroutine that can run does run, and
\* every Check attempt returns
InitCycle ==
  /\ checkers = Streams
  /\ InitConfig({FullFile(30, 10, c, r) : c \in {1, 2}, r \in {0, 1}})

\* a step of the scheduler or of a worker, with the shutdown and the clock idle
Step(A) == A /\ UNCHANGED envVars

NextCycle ==
  \/ Step(Start)
  \/ Step(Tick({1}, MaxFairCycles))
  \/ \E k \in Slots : Step(CycleDone(k))
  \/ \E w \in Workers : Step(Acquire(w))
  \/ \E w \in Workers : Step(CheckReadVideo(w))
  \/ \E w \in Workers : Step(CheckFail(w, {ErrConnect, ErrRead}))
  \/ \E w \in Workers : Step(Backoff(w))
  \/ \E w \in Workers : Step(CheckCommitBegin(w, SchedSamples))
  \/ \E w \in Workers : Step(CheckCommitEnd(w))
  \/ \E w \in Workers : Step(MarkFailedBegin(w))
  \/ \E w \in Workers : Step(MarkFailedEnd(w))

\* the process does not stand still while a goroutine can take a step
FairCycle == WF_vars(NextCycle)

SpecCycle == InitCycle /\ [][NextCycle]_vars /\ FairCycle

\* One stream under configuration files that leave settings out
InitDefaults == checkers = {"s1"} /\ InitConfig(SomeKeys)

NextDefaults ==
  \/ Step(Start)
  \/ Step(Tick({1}, MaxDefaultCycles))
  \/ Panic
  \/ \E k \in Slots : Step(CycleDone(k))
  \/ \E w \in Workers : Step(Acquire(w))
  \/ \E w \in Workers : Step(CheckReadVideo(w))
  \/ \E w \in Workers : Step(CheckFail(w, {ErrConnect, ErrRead}))
  \/ \E w \in Workers : Step(Backoff(w))
  \/ \E w \in Workers : Step(CheckCommitBegin(w, SchedSamples))
  \/ \E w \in Workers : Step(CheckCommitEnd(w))
  \/ \E w \in Workers : Step(MarkFailedBegin(w))
  \/ \E w \in Workers : Step(MarkFailedEnd(w))

SpecDefaults == InitDefaults /\ [][NextDefaults]_vars

\* The labels and the scores: one stream, one cycle after the other, samples
\* on and around the thresholds, a scrape at any moment
InitScore == InitWith({"s1"}, 1, {0})

NextScore ==
  \/ Step(Start)
  \/ Step(Tick({1}, MaxScoreCycles))
  \/ \E k \in Slots : Step(CycleDone(k))
  \/ \E w \in Workers : Step(Acquire(w))
  \/ \E w \in Workers : Step(CheckReadVideo(w))
  \/ \E w \in Workers : Step(CheckFail(w, {ErrRead}))
  \/ \E w \in Workers : Step(CheckCommitBegin(w, ScoreSamples))
  \/ \E w \in Workers : Step(CheckCommitEnd(w))
  \/ \E w \in Workers : Step(MarkFailedBegin(w))
  \/ \E w \in Workers : Step(MarkFailedEnd(w))
  \/ \E s \in Streams : Step(Scrape(s))

SpecScore == InitScore /\ [][NextScore]_vars

\* The stability label: one stream, one cycle after the other, bitrates whose
\* coefficient of variation falls on and between the two thresholds
InitStability == InitWith({"s1"}, 1, {0})

NextStability ==
  \/ Step(Start)
  \/ Step(Tick({1}, MaxStabilityCycles))
  \/ \E k \in Slots : Step(CycleDone(k))
  \/ \E w \in Workers : Step(Acquire(w))
  \/ \E w \in Workers : Step(CheckReadVideo(w))
  \/ \E w \in Workers : Step(CheckFail(w, {ErrRead}))
  \/ \E w \in Workers : Step(CheckCommitBegin(w, StabilitySamples))
  \/ \E w \in Workers : Step(CheckCommitEnd(w))
  \/ \E w \in Workers : Step(MarkFailedBegin(w))
  \/ \E w \in Workers : Step(MarkFailedEnd(w))

SpecStability == InitStability /\ [][NextStability]_vars

\* Two streams side by side: the upstream of s2 delivers a fixed sequence of
\* observations (its n-th successful sample is Upstream(n)), s1 delivers
\* anything; max_concurrent is 1 or 2 and the goroutines of a cycle interleave
\* freely
Upstream(n) == IF n % 2 = 1 THEN SampleRate13 ELSE SampleRate7

Observed(w) ==
  IF StreamOf(w) = "s2" THEN {Upstream(tally["s2"].pushed + 1)} ELSE ScrapeSamples

InitIsolation ==
  /\ checkers = Streams
  /\ InitConfig({FullFile(30, 10, c, 0) : c \in {1, 2}})

NextIsolation ==
  \/ Step(Start)
  \/ Step(Tick({1}, MaxIsolationCycles))
  \/ \E k \in Slots : Step(CycleDone(k))
  \/ \E w \in Workers : Step(Acquire(w))
  \/ \E w \in Workers : Step(CheckReadVideo(w))
  \/ \E w \in Workers : Step(CheckFail(w, {ErrRead}))
  \/ \E w \in Workers : Step(CheckCommitBegin(w, Observed(w)))
  \/ \E w \in Workers : Step(CheckCommitEnd(w))
  \/ \E w \in Workers : Step(MarkFailedBegin(w))
  \/ \E w \in Workers : Step(MarkFailedEnd(w))

SpecIsolation == InitIsolation /\ [][NextIsolation]_vars

\* main's loop over the stream entries of a configuration, before Start
EntryChoices ==
  {Entry("p", "CDN", "a", "u1"), Entry("p", "cdn", "b", "u1"),
   Entry("p", "cdn", "c", "u2"), Entry("q", "Source", "a", "u1")}

Configurations ==
  UNION {[1 .. n -> EntryChoices] : n \in 0 .. MaxEntries}

InitLoad ==
  /\ checkers = {}
  /\ InitRun({FullFile(30, 10, 1, 0)})
  /\ NotLoaded(Configurations)

NextLoad ==
  \/ AddStream
  \/ GetAllMetrics(1)
  \/ \E s \in checkers : GetMetricsOf(s)

SpecLoad == InitLoad /\ [][NextLoad]_vars

\* GetAllMetrics against the first cycle of two streams, and a caller that
\* writes to what it got
InitGather == InitWith(Streams, 2, {0})

NextGather ==
  \/ Step(Start)
  \/ \E k \in Slots : Step(CycleDone(k))
  \/ \E w \in Workers : Step(Acquire(w))
  \/ \E w \in Workers : Step(CheckReadVideo(w))
  \/ \E w \in Workers : Step(CheckFail(w, {ErrRead}))
  \/ \E w \in Workers : Step(CheckCommitBegin(w, SchedSamples))
  \/ \E w \in Workers : Step(CheckCommitEnd(w))
  \/ \E w \in Workers : Step(MarkFailedBegin(w))
  \/ \E w \in Workers : Step(MarkFailedEnd(w))
  \/ GetAllMetrics(MaxGathers)
  \/ \E s \in checkers : GetMetricsOf(s)
  \/ Mutate

SpecGather == InitGather /\ [][NextGather]_vars

\* The timeout of an attempt: one stream under the ticker's clock, intervals
\* on both sides of 20 s, sampling times unset (0), 10 s and 20 s
TimeoutFiles ==
  {FullFile(i, s, 1, 0) : i \in {10, 20, 21, 30}, s \in {0, 10, 20}}

InitTimeout == checkers = {"s1"} /\ InitConfig(TimeoutFiles)

NextTimeout ==
  \/ TimedStart
  \/ TimedTick({1}, MaxTimeoutCycles)
  \/ Advance(MaxTimeoutCycles)
  \/ \E k \in Slots : Step(CycleDone(k))
  \/ \E w \in Workers : TimedAcquire(w)
  \/ \E w \in Workers : Step(CheckReadVideo(w))
  \/ \E w \in Workers : TimedCheckFail(w, {ErrTimeout, ErrRead})
  \/ \E w \in Workers : TimedCheckCommitBegin(w, SchedSamples)
  \/ \E w \in Workers : Step(CheckCommitEnd(w))
  \/ \E w \in Workers : Step(MarkFailedBegin(w))
  \/ \E w \in Workers : Step(MarkFailedEnd(w))

SpecTimeout == InitTimeout /\ [][NextTimeout]_vars

\* ------------------------------------------------------------------------
\* Properties
\* ------------------------------------------------------------------------
\* Check calls in flight: the goroutine holds a slot and is inside Check
InFlight == {w \in Workers : pc[w] \in {"check", "commit2"}}

\* C1: at most max_concurrent Check calls are in flight process-wide, also
\* when a later cycle has started while an earlier one is still running.
C1_AtMostMaxConcurrentInFlight == Cardinality(InFlight) <= config.MaxConcurrent

\* C2: for max_retries = R >= 0 one call of checkWithRetry makes at most R+1
\* Check calls, none after a successful one, and calls MarkFailed exactly once,
\* after the last attempt and returning its error, iff all R+1 attempts failed.
C2_RetryWrapper ==
  \A w \in Workers :
    LET c == calls[w]
        R == config.MaxRetries
    IN  R >= 0 =>
          /\ c.checks <= R + 1
          /\ c.oks <= 1
          /\ c.marks <= 1
          /\ c.oks = 1 => c.ret = "nil" /\ c.marks = 0
          /\ c.marks = 1 => c.checks = R + 1 /\ c.oks = 0 /\ c.last \in AllErrors
          /\ c.ret # "running" =>
               /\ pc[w] \in {"done", "idle"}
               /\ c.marks = 1 <=> c.oks = 0
               /\ c.oks = 0 => c.ret = c.last /\ c.ret # "nil"

\* a call with max_retries = 2 that made 3 failing attempts and marked the stream
C2_Witness ==
  \E w \in Workers :
    /\ config.MaxRetries = 2
    /\ calls[w].checks = 3 /\ calls[w].marks = 1 /\ calls[w].ret \in AllErrors

\* C3 as stated: the sleep between attempt k and attempt k+1 (counted from 1)
\* is 2^(k+1) seconds.
C3_SleepTwoToKPlusOne ==
  \A w \in Workers :
    \A k \in 1 .. Len(calls[w].sleeps) : calls[w].sleeps[k] = 2 ^ (k + 1)

\* C3 amended: the sleep between attempt k and attempt k+1 (counted from 1) is
\* 2^k seconds, one sleep between any two consecutive attempts.
C3_SleepTwoToK ==
  \A w \in Workers :
    /\ \A k \in 1 .. Len(calls[w].sleeps) : calls[w].sleeps[k] = 2 ^ k
    /\ calls[w].checks > 0 => Len(calls[w].sleeps) = calls[w].checks - 1

\* a call that slept 2 s and then 4 s
C3_Witness == \E w \in Workers : calls[w].sleeps = <<2, 4>>

\* C4: MarkFailed leaves every numeric field 0, healthy and playable false,
\* quality "poor", stability "unstable", consecutive_failures one higher and
\* last_check_time advanced; the gauges of such a snapshot are all 0.
MarkFailedResult(before, after) ==
  LET g == UpdateMetrics(GetMetrics(after))
  IN  /\ after.totalPackets = 0 /\ after.videoPackets = 0
      /\ after.audioPackets = 0 /\ after.keyframes = 0
      /\ after.currentBitrate = Zero /\ after.avgBitrate = Zero
      /\ after.framerate = Zero /\ after.response = 0 /\ after.gopSize = 0
      /\ after.ttfbMs = 0 /\ after.readThroughputBps = Zero
      /\ after.readStallCount = 0 /\ after.readStallMaxMs = 0
      /\ after.readStallTotalMs = 0 /\ after.readStallRatio = Zero
      /\ ~after.healthy /\ ~after.playable
      /\ after.quality = "poor" /\ after.bitrateStability = "unstable"
      /\ after.lastCheckTime > before.lastCheckTime
      /\ g.up = 0 /\ g.healthy = 0 /\ g.playable = 0
      /\ g.quality_score = 0 /\ g.stability_score = 0 /\ g.overall_score = 0

C4_MarkFailedZeroes ==
  [][\A w \in Workers :
       /\ (pc[w] = "markfailed" /\ pc'[w] = "mark2") =>
            sc'[StreamOf(w)].consecutiveFails = sc[StreamOf(w)].consecutiveFails + 1
       /\ (pc[w] = "mark2" /\ pc'[w] = "done") =>
            /\ sc'[StreamOf(w)].consecutiveFails = sc[StreamOf(w)].consecutiveFails
            /\ MarkFailedResult(sc[StreamOf(w)], sc'[StreamOf(w)])]_vars

\* MarkFailed has run on a snapshot that an earlier successful cycle had filled
C4_Witness ==
  \E w \in Workers :
    /\ pc[w] = "done" /\ calls[w].marks = 1
    /\ sc[StreamOf(w)].bitrateHistory # <<>>
    /\ sc[StreamOf(w)].consecutiveFails = 1
    /\ sc[StreamOf(w)].readStallRatio = Zero
    /\ sc[StreamOf(w)].lastCheckTime = 2

\* C5: consecutive_failures is the number of cycles marked failed since the
\* last success (or since start) and healthy is false then - one per failed
\* cycle, not per failed attempt; a successful cycle gives healthy = true and 0.
C5_ConsecutiveFailures ==
  \A s \in checkers :
    LockFree(s) =>
      /\ sc[s].consecutiveFails = tally[s].failed
      /\ tally[s].failed > 0 => ~sc[s].healthy
      /\ (tally[s].failed = 0 /\ sc[s].lastCheckTime > 0) => sc[s].healthy

\* three cycles in a row were marked failed, each after two failed attempts
C5_Witness ==
  \E w \in Workers :
    /\ tally[StreamOf(w)].failed = 3
    /\ sc[StreamOf(w)].bitrateHistory # <<>>
    /\ calls[w].checks = 2 /\ calls[w].marks = 1 /\ pc[w] = "done"

C7_StallRatioRange ==
  \A s \in Streams :
    RLe(Zero, sc[s].readStallRatio) /\ RLe(sc[s].readStallRatio, One)

\* a commit whose stalls (12 s) add up to more than the elapsed time (10 s)
C7_Witness ==
  \E s \in Streams :
    sc[s].readStallTotalMs = 12000 /\ sc[s].readStallRatio = One /\ sc[s].healthy

\* avg * len = sum: avg is the arithmetic mean of the history (0 when empty)
IsMeanOf(avg, h) ==
  IF h = <<>> THEN avg = Zero ELSE RMul(avg, RInt(Len(h))) = SumFirst(h, Len(h))

\* C8 as stated: in every snapshot avg_bitrate is the mean of the bitrate
\* history and the history holds at most 10 entries.
C8_AvgIsMeanAlways ==
  \A s \in checkers :
    LockFree(s) =>
      /\ IsMeanOf(sc[s].avgBitrate, sc[s].bitrateHistory)
      /\ Len(sc[s].bitrateHistory) <= HistoryCap

\* C8 amended: the history holds at most 10 entries; avg_bitrate is its mean
\* while the current bitrate is positive, and 0 while it is 0 (at start and
\* after MarkFailed, which keeps the history).
C8_AvgIsMeanWhenPositive ==
  \A s \in checkers :
    LockFree(s) =>
      /\ Len(sc[s].bitrateHistory) <= HistoryCap
      /\ IF RGt(sc[s].currentBitrate, Zero)
         THEN IsMeanOf(sc[s].avgBitrate, sc[s].bitrateHistory)
         ELSE sc[s].avgBitrate = Zero /\ sc[s].currentBitrate = Zero

\* an eleventh bitrate was appended to a full history of mixed bitrates
C8_Witness ==
  \E s \in checkers :
    /\ LockFree(s)
    /\ tally[s].pushed > HistoryCap
    /\ Len(sc[s].bitrateHistory) = HistoryCap
    /\ RGt(sc[s].currentBitrate, Zero)
    /\ sc[s].avgBitrate \notin {RInt(25), RInt(4)}

\* C9: every write of a snapshot field by Check or MarkFailed is made while
\* the stream's write lock is held.
C9_WritesUnderLock == unlocked = {}

\* C10: a Check attempt that returns an error has written no field of the
\* snapshot.
C10_FailedAttemptWritesNothing ==
  \A w \in Workers : pc[w] \in {"backoff", "markfailed"} => wrote[w] = {}

\* the goroutine is inside checkWithRetry
InWrapper(w) == pc[w] \in {"check", "backoff", "commit2", "markfailed", "mark2"}

\* the goroutine is inside Check, sampling its stream
Sampling(w) == pc[w] \in {"check", "commit2"}

\* w belongs to an earlier cycle than v and to the same stream
EarlierCycle(w, v) ==
  /\ StreamOf(w) = StreamOf(v)
  /\ cycle[SlotOf(w)].seq < cycle[SlotOf(v)].seq

\* C11: retries never cross cycle boundaries: while a cycle samples a stream,
\* no retry wrapper that an earlier cycle started for that stream is still at
\* an attempt or a sleep - for every check_interval, sample_duration and
\* max_retries.
C11_RetriesStayInCycle ==
  \A w \in Workers : \A v \in Workers :
    (EarlierCycle(w, v) /\ Sampling(v)) => ~InWrapper(w)

\* C12: for one stream the commits (success or MarkFailed) follow cycle order,
\* also when cycles overlap: no cycle commits after a cycle that started later
\* has committed, so the bitrate history is appended in cycle order.
C12_CommitsInCycleOrder == \A s \in Streams : ~tally[s].inverted

\* C13: Start launches exactly one cycle at once and exactly one further cycle
\* per tick it receives, and launches no cycle once Stop has closed the stop
\* channel.
C13_OneCyclePerTickUntilStop ==
  [][/\ (schedPc = "start" /\ schedPc' \in {"loop", "panic"}) =>
          cyclesStarted' = cyclesStarted + 1
     /\ (schedPc # "start" /\ cyclesStarted' # cyclesStarted) =>
          /\ cyclesStarted' = cyclesStarted + 1
          /\ tickerC = 1 /\ tickerC' = 0
     /\ (schedPc # "start" /\ tickerC = 1 /\ tickerC' = 0) =>
          cyclesStarted' = cyclesStarted + 1
     /\ stopChan = "closed" => cyclesStarted' = cyclesStarted]_vars

\* C14: after the signal has closed the stop channel, every cycle in flight
\* runs to completion before the process ends: no worker is cut off before it
\* has committed a success or marked its stream failed.
C14_InFlightCyclesComplete ==
  (mainPc = "exited" /\ stopChan = "closed") =>
    /\ \A w \in Workers : pc[w] # "killed"
    /\ \A k \in Slots : ~cycle[k].running

\* the workers of cycle k that hold a slot of its semaphore
HoldingSlot(k) == {w \in InSlot(k) : InWrapper(w)}

\* what holds when wg.Wait() of cycle k returns
CycleComplete(k) ==
  /\ cycle[k].successCount + cycle[k].failCount = Cardinality(checkers)
  /\ cycle[k].sem = 0
  /\ \A w \in InSlot(k) : calls[w].wraps = 1 /\ calls[w].ret # "running"

\* C15: for max_concurrent >= 1, with every Check attempt returning, every
\* started cycle completes; each stream of the cycle is handed to the retry
\* wrapper exactly once, each worker gives its slot back on success and on
\* failure, and at completion success count + failure count is the number of
\* streams.
C15_CycleCompletes ==
  /\ [](\A k \in Slots :
          /\ cycle[k].sem = Cardinality(HoldingSlot(k))
          /\ cycle[k].sem <= config.MaxConcurrent
          /\ \A w \in InSlot(k) : calls[w].wraps <= 1)
  /\ [][\A k \in Slots :
          (cycle[k].running /\ ~cycle'[k].running) => CycleComplete(k)]_vars
  /\ \A k \in Slots : cycle[k].running ~> ~cycle[k].running

\* a cycle over two streams with one slot has completed, one stream committed
\* after a retry and one marked failed
C15_Witness ==
  /\ config.MaxConcurrent = 1
  /\ config.MaxRetries = 1
  /\ ~cycle[1].running
  /\ cycle[1].successCount = 1 /\ cycle[1].failCount = 1
  /\ \E w \in Workers : calls[w].oks = 1 /\ calls[w].checks = 2

\* C16: a setting the file omits (0 after LoadConfig) takes its default:
\* sample_duration 10, min_keyframes 2, stall_threshold_ms 200, check_interval
\* 30 (the ticker is made), max_concurrent 1000 (a worker waiting for a slot
\* gets one), max_retries 3 (a stream is marked failed after 4 attempts).
C16_OmittedSettingsGetDefaults ==
  /\ config.SampleDuration = 0 => SampleDurationSec(config) = 10
  /\ config.MinKeyframes = 0 => MinKeyframesOf(config) = 2
  /\ config.StallThresholdMs = 0 => StallThreshold(config) = 200
  /\ config.CheckInterval = 0 => schedPc # "panic"
  /\ config.MaxConcurrent = 0 =>
       \A w \in Workers : pc[w] = "acquire" => SemaphoreFree(SlotOf(w))
  /\ config.MaxRetries = 0 =>
       \A w \in Workers : calls[w].marks = 1 => calls[w].checks = 4

\* the projections of the labels, as the claim gives them
QualityRank(q) == CASE q = "good" -> 2 [] q = "fair" -> 1 [] OTHER -> 0

StabilityRank(st) == CASE st = "stable" -> 2 [] st = "moderate" -> 1 [] OTHER -> 0

\* the table of the overall score, with the stall override in front
ScoreTable(q, st, ratio) ==
  IF 2 * ratio[1] > ratio[2] THEN 0
  ELSE CASE <<q, st>> = <<2, 2>> -> 2
         [] <<q, st>> \in {<<2, 1>>, <<1, 2>>, <<1, 1>>} -> 1
         [] OTHER -> 0

\* C17: the overall_score a scrape exposes is a function of the snapshot's
\* quality label, stability label and stall_ratio: 0 when stall_ratio > 0.5
\* (not at exactly 0.5), else the table over the projected labels; it is
\* always 0, 1 or 2.
C17_OverallScoreTable ==
  [][\A s \in Streams :
       gauges'[s] # gauges[s] =>
         /\ gauges'[s].overall_score \in {0, 1, 2}
         /\ gauges'[s].overall_score =
              ScoreTable(QualityRank(sc[s].quality),
                         StabilityRank(sc[s].bitrateStability),
                         sc[s].readStallRatio)]_vars

\* a scrape of a good and stable stream stalled for exactly half of the sample:
\* the override has not fired
C17_Witness ==
  \E s \in Streams :
    /\ gauges[s] # NoGauges
    /\ gauges[s].read_stall_ratio = <<1, 2>>
    /\ gauges[s].quality_score = 2 /\ gauges[s].stability_score = 2
    /\ gauges[s].overall_score = 2

\* the fraction r = <<numerator, denominator>> is at least the integer n
AtLeast(r, n) == r[1] >= n * r[2]

\* C18: after a successful commit the quality is "poor" if the stream is not
\* playable; else "good" if framerate >= 25 and bitrate >= 600000 bps; else
\* "fair" if framerate >= 20 and bitrate >= 400000 bps; else "poor". Both
\* thresholds are inclusive.
C18_QualityThresholds ==
  \A s \in checkers :
    (LockFree(s) /\ sc[s].healthy) =>
      LET fps == sc[s].framerate
          bps == sc[s].currentBitrate
      IN  /\ ~sc[s].playable => sc[s].quality = "poor"
          /\ (sc[s].playable /\ AtLeast(fps, 25) /\ AtLeast(bps, 6)) =>
               sc[s].quality = "good"
          /\ (sc[s].playable /\ ~(AtLeast(fps, 25) /\ AtLeast(bps, 6))
                /\ AtLeast(fps, 20) /\ AtLeast(bps, 4)) =>
               sc[s].quality = "fair"
          /\ (sc[s].playable /\ ~(AtLeast(fps, 25) /\ AtLeast(bps, 6))
                /\ ~(AtLeast(fps, 20) /\ AtLeast(bps, 4))) =>
               sc[s].quality = "poor"

\* a commit with exactly 25 fps and 600000 bps gave "good", and later one with
\* exactly 20 fps and 400000 bps gave "fair"
C18_Witness ==
  \E s \in checkers :
    /\ LockFree(s) /\ sc[s].healthy /\ sc[s].playable
    /\ sc[s].framerate = RInt(20) /\ sc[s].currentBitrate = RInt(4)
    /\ sc[s].quality = "fair"
    /\ Len(sc[s].bitrateHistory) >= 2
    /\ sc[s].bitrateHistory[Len(sc[s].bitrateHistory) - 1] = RInt(6)

RECURSIVE SumOfSquares(_, _)
\* h[1]^2 + ... + h[k]^2, as a fraction in lowest terms
SumOfSquares(h, k) ==
  IF k = 0 THEN Zero ELSE RAdd(SumOfSquares(h, k - 1), RMul(h[k], h[k]))

\* population variance of h around its own mean avg: mean of squares - avg^2
PopVariance(h, avg) == RSub(RDiv(SumOfSquares(h, Len(h)), RInt(Len(h))), RMul(avg, avg))

\* sqrt(v) / avg < p / 100, for avg > 0: 10000 v < p^2 avg^2
CvUnder(v, avg, p) == RLt(RMul(RInt(10000), v), RMul(RInt(p * p), RMul(avg, avg)))

\* C19: after a successful commit the stability is "unknown" while the history
\* has fewer than 3 entries; otherwise CV = population standard deviation of
\* the history / avg_bitrate decides: below 0.15 "stable", from 0.15 and below
\* 0.30 "moderate", from 0.30 "unstable". Three or more equal bitrates are
\* stable; a single entry is the average, with stability unknown.
C19_StabilityByCV ==
  \A s \in checkers :
    (LockFree(s) /\ sc[s].healthy) =>
      LET h == sc[s].bitrateHistory
          avg == sc[s].avgBitrate
          v == PopVariance(h, avg)
          label == sc[s].bitrateStability
      IN  /\ h # <<>>
          /\ Len(h) = 1 => avg = h[1]
          /\ Len(h) < 3 => label = "unknown"
          /\ Len(h) >= 3 =>
               /\ CvUnder(v, avg, 15) => label = "stable"
               /\ (~CvUnder(v, avg, 15) /\ CvUnder(v, avg, 30)) => label = "moderate"
               /\ ~CvUnder(v, avg, 30) => label = "unstable"
               /\ (\A i \in 1..Len(h) : h[i] = h[1]) => label = "stable"

\* 2.3, 2.3, 1.7 and 1.7 Mbit/s in some order, mean 2.0, deviation 0.3: a CV
\* of exactly 0.15 is "moderate"
C19_Witness ==
  \E s \in checkers :
    /\ LockFree(s) /\ sc[s].healthy
    /\ Len(sc[s].bitrateHistory) = 4
    /\ Cardinality({i \in 1..4 : sc[s].bitrateHistory[i] = RInt(23)}) = 2
    /\ Cardinality({i \in 1..4 : sc[s].bitrateHistory[i] = RInt(17)}) = 2
    /\ sc[s].avgBitrate = RInt(20)
    /\ sc[s].bitrateStability = "moderate"

\* C20: in every snapshot GetMetrics can serve, the one before the stream's
\* first check has completed included, quality is one of good, fair, poor,
\* unknown and stability is one of stable, moderate, unstable, unknown.
C20_LabelsInRange ==
  \A s \in checkers :
    LockFree(s) =>
      /\ GetMetrics(sc[s]).Quality \in {"good", "fair", "poor", "unknown"}
      /\ GetMetrics(sc[s]).BitrateStability \in {"stable", "moderate", "unstable", "unknown"}

RECURSIVE Replay(_)
\* the snapshot of s2 after its first n successful samples and nothing else
Replay(n) ==
  IF n = 0 THEN NewStreamChecker
  ELSE The({CommitDerived(CommitCounters(r, Upstream(n), 0), Upstream(n)) :
              r \in {Replay(n - 1)}})

\* the same with f failed cycles after the last success
ReplayFailed(n, f) ==
  IF f = 0 THEN Replay(n) ELSE MarkFailedRest(MarkFailedHead(Replay(n)), 0)

\* what the claim is about: the labels, the history and the overall score
Verdict(s) ==
  <<s.quality, s.bitrateStability, s.bitrateHistory,
    UpdateMetrics(GetMetrics(s)).overall_score>>

\* C21: a stream's quality, stability and overall_score depend only on its own
\* sequence of observations: a step of Check or MarkFailed on one stream
\* leaves every other stream's snapshot and bitrate history unchanged, and
\* under every interleaving with the cycles of the other stream the snapshot
\* of s2 is the one its own observations give.
C21_StreamsIsolated ==
  /\ [](LockFree("s2") =>
          Verdict(sc["s2"]) = Verdict(ReplayFailed(tally["s2"].pushed, tally["s2"].failed)))
  /\ [][/\ Cardinality({b \in Streams : sc'[b] # sc[b]}) <= 1
        /\ \A b \in Streams :
             sc'[b] # sc[b] =>
               \A w \in Workers :
                 StreamOf(w) # b => pc'[w] = pc[w] /\ hasVideo'[w] = hasVideo[w]]_vars

\* s2 has committed three samples while s1 was marked failed and committed
\* in between
C21_Witness ==
  /\ LockFree("s2")
  /\ tally["s2"].pushed = 3 /\ tally["s2"].failed = 0
  /\ sc["s2"].bitrateStability = "moderate"
  /\ tally["s1"].failed > 0
  /\ Len(sc["s1"].bitrateHistory) > 0

\* C22: every stream entry of the configuration gets a snapshot of its own,
\* and no AddStream call removes, replaces or rekeys an entry of the store:
\* once main's loop is over the store holds as many entries as the
\* configuration has, also when entries share project, line and URL.
C22_OneSnapshotPerEntry ==
  /\ [](entries = <<>> => Cardinality(checkers) = totalStreams)
  /\ [][\A k \in checkers : k \in checkers' /\ descr'[k] = descr[k]]_vars

\* no goroutine is inside the critical section of a commit or of MarkFailed
\* on the stream
Settled(s) ==
  \A w \in Workers : StreamOf(w) = s => pc[w] \notin {"commit2", "mark2"}

\* the fields of a snapshot that are written under the stream's lock only
Protected(m) == [f \in DOMAIN GetMetrics(NewStreamChecker) \ {"Codec"} |-> m[f]]

\* C23: GetAllMetrics returns exactly one snapshot per stored stream; each is
\* a copy (a write to a returned label map or field leaves the store as it
\* was) and each equals the stream's lock-protected state at one instant, at
\* which no commit and no MarkFailed was half done.
C23_GetAllMetricsCopies ==
  [][/\ (visit # NoVisit /\ visit' = NoVisit) =>
          /\ Len(metrics') = Cardinality(checkers)
          /\ \A s \in checkers :
               Cardinality({i \in 1 .. Len(metrics') : metrics'[i].ID = descr[s].id}) = 1
     /\ Len(metrics') = Len(metrics) + 1 =>
          \E s \in checkers :
            LET m == metrics'[Len(metrics')]
            IN  /\ m.ID = descr[s].id
                /\ Settled(s)
                /\ Protected(m) = Protected(GetMetrics(sc[s]))
                /\ m.Labels # descr[s].labels
                /\ labelMaps'[m.Labels] = labelMaps[descr[s].labels]
     /\ (visit = NoVisit /\ visit' = NoVisit
           /\ (metrics' # metrics \/ labelMaps' # labelMaps)) =>
          /\ sc' = sc /\ descr' = descr
          /\ \A s \in checkers :
               labelMaps'[descr[s].labels] = labelMaps[descr[s].labels]]_vars

\* the caller has written to the label map and to a field of what the first
\* call returned; the second call has taken one snapshot and waits for the
\* other stream, whose commit holds the lock
C23_Witness ==
  /\ visit # NoVisit
  /\ Len(metrics) = 1
  /\ \E w \in Workers : pc[w] = "commit2" /\ StreamOf(w) \in visit
  /\ \E r \in 1 .. Len(labelMaps) : labelMaps[r]["id"] = "changed"
  /\ \A s \in checkers : labelMaps[descr[s].labels]["id"] = s

\* C24: the timeout of an attempt is S + 5 seconds (S the sample_duration, 10
\* when unset) when check_interval <= 20; when check_interval > 20 it is
\* check_interval - 5 seconds, and that is a raise: the timeout is never
\* below S + 5.
C24_TimeoutIsRaised ==
  [][\A w \in Workers :
       (pc[w] = "acquire" /\ pc'[w] = "check") =>
         LET S == IF config.SampleDuration > 0 THEN config.SampleDuration ELSE 10
             timeout == until'[w] - now
         IN  /\ config.CheckInterval <= 20 => timeout = S + 5
             /\ config.CheckInterval > 20 => timeout = config.CheckInterval - 5
             /\ timeout >= S + 5]_vars

\* ---------------------------------------------------------------------------
\* The sampling loop of Check, packet by packet.  loop[w] holds the locals of
\* worker w's attempt; its times are whole seconds since startTime.
\* ---------------------------------------------------------------------------

\* seconds between sending the request and the response headers
ResponseTimes == {0, 1}

\* seconds a call of demuxer.ReadPacket blocks
Delays == {2, 3}

\* pkt.Time of the first video packet, and what it grows by from one video
\* packet to the next, in time units
FirstDts == 5
DtsSteps == {0, 1}

\* the loop's two conditions to stop, at the top of an iteration
ShouldStopNoHardStop(elapsed, keyframes, cfg) ==
  elapsed >= SampleDurationSec(cfg) /\ keyframes >= MinKeyframesOf(cfg)

ShouldStop(elapsed, keyframes, cfg) ==
  \/ elapsed >= SampleDurationSec(cfg) /\ keyframes >= MinKeyframesOf(cfg)
  \/ elapsed >= SampleDurationSec(cfg) * 2

\* stallTrackingReader.Read's accounting of one read that took d seconds
TrackedOrEqual(l, d) ==
  IF d * UnitsPerSecond * MsPerUnit >= StallThreshold(config)
  THEN [l EXCEPT !.stallCount = @ + 1,
                 !.maxStall = IF d > @ THEN d ELSE @,
                 !.totalStall = @ + d]
  ELSE l

Tracked(l, d) ==
  IF d * UnitsPerSecond * MsPerUnit > StallThreshold(config)
  THEN [l EXCEPT !.stallCount = @ + 1,
                 !.maxStall = IF d > @ THEN d ELSE @,
                 !.totalStall = @ + d]
  ELSE l

\* every read with n > 0 stamps firstReadTime anew
ReadRestamp(l, n, err, d) ==
  [locals |-> [Tracked(l, d) EXCEPT
                 !.firstRead = n > 0 \/ @,
                 !.ttfb = IF n > 0 THEN l.t ELSE @,
                 !.totalBytes = IF n > 0 THEN @ + n ELSE @,
                 !.t = @ + d],
   ret |-> <<n, err>>]

\* stallTrackingReader.Read when the underlying read returns (n, err) after d
\* seconds: Check's locals after it and what Read returns.  The first read
\* with n > 0 stamps firstReadTime with the time the read began (reqStart is
\* time 0)
Read(l, n, err, d) ==
  [locals |-> [Tracked(l, d) EXCEPT
                 !.firstRead = n > 0 \/ @,
                 !.ttfb = IF n > 0 /\ ~l.firstRead THEN l.t ELSE @,
                 !.totalBytes = IF n > 0 THEN @ + n ELSE @,
                 !.t = @ + d],
   ret |-> <<n, err>>]

\* a ReadPacket that is one read of one byte unit
TrackedData(l, d) ==
  [Read(l, 1, "nil", d).locals EXCEPT !.packetCount = @ + 1, !.at = "top"]

\* the locals after an H264 packet
Video(l, d, key, step) ==
  [TrackedData(l, d) EXCEPT
     !.videoCount = @ + 1,
     !.keyframeCount = IF key THEN @ + 1 ELSE @,
     !.firstDTS = IF l.videoCount = 0 THEN FirstDts ELSE @,
     !.lastDTS = IF l.videoCount = 0 THEN FirstDts ELSE @ + step]

\* the locals after an AAC packet
Audio(l, d) == [TrackedData(l, d) EXCEPT !.audioCount = @ + 1]

\* what Check's computation after the loop is given; duration is
\* time.Since(startTime)
SampleOfSampleStart(l) ==
  [packetCount |-> l.packetCount, videoCount |-> l.videoCount,
   audioCount |-> l.audioCount, keyframeCount |-> l.keyframeCount,
   totalBytes |-> l.totalBytes, firstDTS |-> l.firstDTS, lastDTS |-> l.lastDTS,
   duration |-> (l.t - l.sampleStart) * UnitsPerSecond,
   response |-> l.response * UnitsPerSecond,
   firstRead |-> l.firstRead, ttfb |-> l.ttfb * UnitsPerSecond,
   stallCount |-> l.stallCount, maxStall |-> l.maxStall * UnitsPerSecond,
   totalStall |-> l.totalStall * UnitsPerSecond]

SampleOf(l) ==
  [packetCount |-> l.packetCount, videoCount |-> l.videoCount,
   audioCount |-> l.audioCount, keyframeCount |-> l.keyframeCount,
   totalBytes |-> l.totalBytes, firstDTS |-> l.firstDTS, lastDTS |-> l.lastDTS,
   duration |-> l.t * UnitsPerSecond,
   response |-> l.response * UnitsPerSecond,
   firstRead |-> l.firstRead, ttfb |-> l.ttfb * UnitsPerSecond,
   stallCount |-> l.stallCount, maxStall |-> l.maxStall * UnitsPerSecond,
   totalStall |-> l.totalStall * UnitsPerSecond]

\* a step of the scheduler's side of the model that leaves Check's locals alone
Outside(A) == A /\ UNCHANGED loop /\ UNCHANGED restVars

\* checkWithRetry calls Check: startTime is taken
LoopAcquire(w) ==
  /\ Acquire(w)
  /\ loop' = [loop EXCEPT ![w] = NewAttempt]
  /\ UNCHANGED restVars

LoopBackoff(w) ==
  /\ Backoff(w)
  /\ loop' = [loop EXCEPT ![w] = NewAttempt]
  /\ UNCHANGED restVars

\* the request is answered with status 200 after r seconds; the reader is
\* attached and sampleStartTime is taken
LoopRequest(w) ==
  /\ pc[w] = "check"
  /\ loop[w].at = "request"
  /\ \E r \in ResponseTimes :
       loop' = [loop EXCEPT ![w].t = r, ![w].response = r,
                            ![w].sampleStart = r, ![w].at = "top"]
  /\ UNCHANGED <<config, checkers, sc, mu, schedVars, cycle, pc, attempt,
                 hasVideo, sample, lastErr, clock, gauges, histVars, restVars>>

\* the request fails: Check returns before the loop
LoopRequestFail(w) ==
  /\ loop[w].at = "request"
  /\ CheckFail(w, {ErrConnect, ErrStatus})
  /\ loop' = [loop EXCEPT ![w].at = "failed", ![w].why = "request"]
  /\ UNCHANGED restVars

\* the top of an iteration: break, or go on to ReadPacket
LoopTop(w) ==
  /\ pc[w] = "check"
  /\ loop[w].at = "top"
  /\ loop' = IF ShouldStop(loop[w].t - loop[w].sampleStart,
                           loop[w].keyframeCount, config)
             THEN [loop EXCEPT ![w].at = "after", ![w].why = "time"]
             ELSE [loop EXCEPT ![w].at = "read"]
  /\ UNCHANGED <<config, checkers, sc, mu, schedVars, cycle, pc, attempt,
                 hasVideo, sample, lastErr, clock, gauges, histVars, restVars>>

\* a read that would return d seconds from now returns in time
InTime(l, d) == l.t + d <= Timeout(config)

\* ReadPacket returns an H264 packet: the first one of the attempt sets
\* hasVideo, and the codec when the snapshot has none
LoopReadVideo(w) ==
  /\ pc[w] = "check"
  /\ loop[w].at = "read"
  /\ \E d \in Delays, key \in BOOLEAN, step \in DtsSteps :
       /\ InTime(loop[w], d)
       /\ loop' = [loop EXCEPT ![w] = Video(@, d, key, step)]
  /\ IF ~hasVideo[w] \/ sc[StreamOf(w)].codec = ""
     THEN CheckReadVideo(w)
     ELSE UNCHANGED <<config, checkers, sc, mu, schedVars, cycle, pc, attempt,
                      hasVideo, sample, lastErr, clock, gauges, histVars>>
  /\ UNCHANGED restVars

\* ReadPacket returns an AAC packet
LoopReadAudio(w) ==
  /\ pc[w] = "check"
  /\ loop[w].at = "read"
  /\ \E d \in Delays :
       /\ InTime(loop[w], d)
       /\ loop' = [loop EXCEPT ![w] = Audio(@, d)]
  /\ UNCHANGED <<config, checkers, sc, mu, schedVars, cycle, pc, attempt,
                 hasVideo, sample, lastErr, clock, gauges, histVars, restVars>>

\* ReadPacket returns io.EOF: break
LoopReadEOF(w) ==
  /\ pc[w] = "check"
  /\ loop[w].at = "read"
  /\ \E d \in Delays :
       /\ InTime(loop[w], d)
       /\ loop' = [loop EXCEPT ![w] = [Tracked(@, d) EXCEPT
                     !.t = @ + d, !.at = "after", !.why = "eof"]]
  /\ UNCHANGED <<config, checkers, sc, mu, schedVars, cycle, pc, attempt,
                 hasVideo, sample, lastErr, clock, gauges, histVars, restVars>>

\* ReadPacket returns another error: Check returns it
LoopReadError(w) ==
  /\ loop[w].at = "read"
  /\ \E d \in Delays :
       /\ InTime(loop[w], d)
       /\ loop' = [loop EXCEPT ![w] = [Tracked(@, d) EXCEPT
                     !.t = @ + d, !.at = "failed", !.why = "error"]]
  /\ CheckFail(w, {ErrRead})
  /\ UNCHANGED restVars

\* the context's deadline passes while ReadPacket blocks: the read returns
\* the context's error at the deadline
LoopReadCancelled(w) ==
  /\ loop[w].at = "read"
  /\ \E d \in Delays : ~InTime(loop[w], d)
  /\ LET l == loop[w]
         end == IF l.t > Timeout(config) THEN l.t ELSE Timeout(config)
     IN  loop' = [loop EXCEPT ![w] = [Tracked(l, end - l.t) EXCEPT
                    !.t = end, !.at = "failed", !.why = "cancelled"]]
  /\ CheckFail(w, {ErrRead})
  /\ UNCHANGED restVars

\* after the loop without a video packet: Check returns its error
LoopNoVideo(w) ==
  /\ loop[w].at = "after"
  /\ ~hasVideo[w]
  /\ CheckFail(w, {ErrNoVideo})
  /\ loop' = [loop EXCEPT ![w].at = "failed"]
  /\ UNCHANGED restVars

\* after the loop with a video packet: the computation and the commit, from
\* the packets counted so far
LoopCommitStale(w) ==
  /\ loop[w].at = "after"
  /\ CheckCommitBegin(w, {SampleOf(NewAttempt)})
  /\ loop' = [loop EXCEPT ![w].at = "commit"]
  /\ UNCHANGED restVars

LoopCommit(w) ==
  /\ loop[w].at = "after"
  /\ CheckCommitBegin(w, {SampleOf(loop[w])})
  /\ loop' = [loop EXCEPT ![w].at = "commit"]
  /\ UNCHANGED restVars

\* the configurations of the loop's specification: an attempt's timeout above
\* the hard stop (sample_duration 2) and below it (sample_duration 6, timeout
\* 11), with min_keyframes 1 and 2
LoopFiles ==
  {[check_interval |-> 10, sample_duration |-> s, min_keyframes |-> k,
    max_concurrent |-> 1, max_retries |-> 0] : s \in {2, 6}, k \in {1, 2}}

InitLoop == checkers = {"s1"} /\ InitConfig(LoopFiles)

NextLoop ==
  \/ Outside(Start)
  \/ \E k \in Slots : Outside(CycleDone(k))
  \/ \E w \in Workers : LoopAcquire(w)
  \/ \E w \in Workers : LoopRequest(w)
  \/ \E w \in Workers : LoopRequestFail(w)
  \/ \E w \in Workers : LoopTop(w)
  \/ \E w \in Workers : LoopReadVideo(w)
  \/ \E w \in Workers : LoopReadAudio(w)
  \/ \E w \in Workers : LoopReadEOF(w)
  \/ \E w \in Workers : LoopReadError(w)
  \/ \E w \in Workers : LoopReadCancelled(w)
  \/ \E w \in Workers : LoopNoVideo(w)
  \/ \E w \in Workers : LoopCommit(w)
  \/ \E w \in Workers : Outside(CheckCommitEnd(w))
  \/ \E w \in Workers : Outside(MarkFailedBegin(w))
  \/ \E w \in Workers : Outside(MarkFailedEnd(w))

SpecLoop == InitLoop /\ [][NextLoop]_vars

\* the time since sampleStartTime, in seconds, as the loop's locals have it
SampleElapsed(l) == l.t - l.sampleStart

\* C25: the loop goes from the top of an iteration to the code after it
\* exactly when (elapsed >= sample_duration and keyframes >= min_keyframes) or
\* elapsed >= 2 x sample_duration, and to ReadPacket otherwise: it never stops
\* for a time reason before sample_duration has elapsed and never reads once
\* elapsed >= 2 x sample_duration
C25_StopsExactlyWhenDue ==
  /\ [](\A w \in Workers :
          LET l == loop[w]
              S == SampleDurationSec(config)
              K == MinKeyframesOf(config)
          IN  /\ l.at = "read" =>
                   /\ SampleElapsed(l) < 2 * S
                   /\ SampleElapsed(l) < S \/ l.keyframeCount < K
              /\ l.at = "after" /\ l.why = "time" =>
                   /\ SampleElapsed(l) >= S
                   /\ l.keyframeCount >= K \/ SampleElapsed(l) >= 2 * S)
  /\ [][\A w \in Workers :
          loop[w].at = "top" /\ loop'[w].at # "top" =>
            LET due == \/ /\ SampleElapsed(loop[w]) >= SampleDurationSec(config)
                          /\ loop[w].keyframeCount >= MinKeyframesOf(config)
                       \/ SampleElapsed(loop[w]) >= 2 * SampleDurationSec(config)
            IN  /\ loop'[w].at = IF due THEN "after" ELSE "read"
                /\ loop'[w].packetCount = loop[w].packetCount]_vars

\* the hard stop: the loop is left with too few keyframes
C25_Witness ==
  \E w \in Workers :
    /\ loop[w].at = "after"
    /\ loop[w].why = "time"
    /\ loop[w].keyframeCount < MinKeyframesOf(config)
    /\ SampleElapsed(loop[w]) >= 2 * SampleDurationSec(config)

\* C26: an attempt whose packets kept arriving (it ended neither by EOF nor
\* by an error of the stream), that saw a video packet and fewer keyframes
\* than min_keyframes, ended at the hard stop, elapsed >= 2 x sample_duration,
\* and its commit leaves the snapshot healthy
C26_HardStopIsReached ==
  \A w \in Workers :
    LET l == loop[w] IN
    /\ l.at \in {"after", "commit", "failed"}
    /\ l.why \in {"time", "cancelled"}
    /\ l.videoCount > 0
    /\ l.keyframeCount < MinKeyframesOf(config)
    => /\ l.why = "time"
       /\ SampleElapsed(l) >= 2 * SampleDurationSec(config)
       /\ l.at = "commit" => sc[StreamOf(w)].healthy

\* the attempt of w is over with an error: it is counted for the retry
Failing(w) == pc'[w] \in {"backoff", "markfailed"} /\ attempt'[w] = attempt[w] + 1

\* C27: EOF ends the loop without counting a packet; after the loop (EOF,
\* normal stop or hard stop) an attempt that saw a video packet commits a
\* healthy snapshot holding the packets counted so far, and one that saw none
\* fails with "no video" and changes no snapshot; a read error other than EOF
\* fails the attempt and changes no snapshot
C27_EndOfStream ==
  [][\A w \in Workers :
       LET l == loop[w]
           after == loop'[w]
           s == StreamOf(w)
       IN  /\ l.at = "read" /\ after.why = "eof" =>
                /\ after.at = "after"
                /\ after.packetCount = l.packetCount
                /\ sc' = sc
                /\ pc'[w] = "check"
           /\ l.at = "after" /\ after.at # "after" =>
                IF l.videoCount > 0
                THEN /\ after.at = "commit"
                     /\ pc'[w] = "commit2"
                     /\ sc'[s].healthy
                     /\ sc'[s].totalPackets = l.packetCount
                     /\ sc'[s].videoPackets = l.videoCount
                     /\ sc'[s].audioPackets = l.audioCount
                     /\ sc'[s].keyframes = l.keyframeCount
                ELSE /\ after.at = "failed"
                     /\ lastErr'[w] = ErrNoVideo
                     /\ Failing(w)
                     /\ sc' = sc
           /\ l.at = "read" /\ after.why \in {"error", "cancelled"} =>
                /\ after.at = "failed"
                /\ lastErr'[w] = ErrRead
                /\ Failing(w)
                /\ sc' = sc]_vars

\* EOF before sample_duration has elapsed, after a video packet: the partial
\* sample is committed
C27_Witness ==
  \E w \in Workers :
    /\ loop[w].at = "commit"
    /\ loop[w].why = "eof"
    /\ SampleElapsed(loop[w]) < SampleDurationSec(config)
    /\ sc[StreamOf(w)].healthy
    /\ sc[StreamOf(w)].videoPackets = loop[w].videoCount
    /\ loop[w].videoCount > 0

\* C28: every commit leaves framerate = video packets / seconds of DTS when
\* the sample's DTS window is valid (lastDTS > firstDTS) and 0 otherwise,
\* whatever the snapshot held before
C28_FramerateOfThisSample ==
  [][\A w \in Workers :
       pc[w] = "commit2" /\ pc'[w] = "done" =>
         sc'[StreamOf(w)].framerate =
           IF sample[w].lastDTS > sample[w].firstDTS
           THEN Rat(sample[w].videoCount * UnitsPerSecond,
                    sample[w].lastDTS - sample[w].firstDTS)
           ELSE Zero]_vars

\* C29: the committed read throughput and stall ratio, and the bitrate when
\* the DTS window is invalid, are computed over the time since
\* sampleStartTime, which leaves out the time the response took
C29_RatesOverSampleElapsed ==
  /\ [](\A w \in Workers :
          pc[w] = "commit2" /\ loop[w].at = "commit" =>
            LET m == SampleOfSampleStart(loop[w])
                s == StreamOf(w)
            IN  /\ sc[s].readThroughputBps = ReadThroughput(m)
                /\ sc[s].readStallRatio = ReadStallRatio(m))
  /\ [][\A w \in Workers :
          /\ pc[w] = "commit2" /\ pc'[w] = "done"
          /\ loop[w].at = "commit"
          /\ loop[w].lastDTS <= loop[w].firstDTS
          /\ SampleElapsed(loop[w]) > 0
          => sc'[StreamOf(w)].currentBitrate =
               Rat(loop[w].totalBytes,
                   SampleElapsed(loop[w]) * UnitsPerSecond)]_vars

\* C30: after a successful commit gop_size is the integer quotient of the
\* video packets by the keyframes when there is more than one keyframe, the
\* video packets when there is one, and 0 when there is none
C30_GopSize ==
  \A w \in Workers :
    loop[w].at = "commit" =>
      LET v == loop[w].videoCount
          k == loop[w].keyframeCount
          gop == sc[StreamOf(w)].gopSize
      IN  /\ k > 1 => gop * k <= v /\ v < (gop + 1) * k
          /\ k = 1 => gop = v
          /\ k = 0 => gop = 0

\* a commit of three video packets of which two are keyframes
C30_Witness ==
  \E w \in Workers :
    /\ loop[w].at = "commit"
    /\ pc[w] = "done"
    /\ loop[w].keyframeCount = 2
    /\ loop[w].videoCount = 3
    /\ sc[StreamOf(w)].gopSize = 1

\* ---------------------------------------------------------------------------
\* The reads of the response body, one by one
\* ---------------------------------------------------------------------------

MaxReads == 3

\* what a read of the response body returns: data, a short read with EOF,
\* EOF, another error
ReadResults == {<<2, "nil">>, <<1, "EOF">>, <<0, "EOF">>, <<0, "reset">>}

\* the seconds a read of the response body takes
ReadTimes == {0, 2, 3}

\* the demultiplexer, inside ReadPacket, reads from the tracking reader
ReaderRead(w) ==
  /\ pc[w] = "check"
  /\ loop[w].at = "read"
  /\ Len(reads[w]) < MaxReads
  /\ \E r \in ReadResults, d \in ReadTimes :
       LET out == Read(loop[w], r[1], r[2], d)
       IN  /\ loop' = [loop EXCEPT ![w] = out.locals]
           /\ reads' = [reads EXCEPT ![w] =
                          Append(@, [n |-> r[1], err |-> r[2], elapsed |-> d,
                                     start |-> loop[w].t, ret |-> out.ret])]
  /\ UNCHANGED <<config, checkers, sc, mu, schedVars, cycle, pc, attempt,
                 hasVideo, sample, lastErr, clock, gauges, histVars, stopVars,
                 timeVars, storeVars>>

\* a threshold of 2 s, which a read of 2 s does not exceed, and the default
ReaderFiles ==
  {[check_interval |-> 30, sample_duration |-> 10, max_concurrent |-> 1,
    max_retries |-> 0, stall_threshold_ms |-> ms] : ms \in {0, 2000}}

InitReader == checkers = {"s1"} /\ InitConfig(ReaderFiles)

NextReader ==
  \/ Outside(Start)
  \/ \E w \in Workers : LoopAcquire(w)
  \/ \E w \in Workers : LoopRequest(w)
  \/ \E w \in Workers : LoopTop(w)
  \/ \E w \in Workers : ReaderRead(w)

SpecReader == InitReader /\ [][NextReader]_vars

\* the reads of h that took longer than the threshold
Stalls(h) ==
  {i \in 1 .. Len(h) :
     h[i].elapsed * UnitsPerSecond * MsPerUnit > StallThreshold(config)}

RECURSIVE SumElapsed(_, _)
SumElapsed(h, which) ==
  IF which = {} THEN 0
  ELSE LET i == CHOOSE x \in which : TRUE
       IN  h[i].elapsed + SumElapsed(h, which \ {i})

\* C31: after every sequence of reads stall_count is the number of reads that
\* took strictly longer than the threshold, whatever they returned, total_stall
\* the sum of their full times and max_stall the longest of them; so
\* max_stall <= total_stall, and stall_count = 0 exactly when total_stall = 0
C31_StallAccounting ==
  \A w \in Workers :
    LET h == reads[w]
        l == loop[w]
    IN  /\ l.stallCount = Cardinality(Stalls(h))
        /\ l.totalStall = SumElapsed(h, Stalls(h))
        /\ \A i \in Stalls(h) : h[i].elapsed <= l.maxStall
        /\ IF Stalls(h) = {} THEN l.maxStall = 0
           ELSE \E i \in Stalls(h) : h[i].elapsed = l.maxStall
        /\ l.maxStall <= l.totalStall
        /\ l.stallCount = 0 <=> l.totalStall = 0

\* a read that took exactly the threshold and is no stall, and two stalls,
\* one of them a read that returned no data
C31_Witness ==
  \E w \in Workers :
    /\ Len(reads[w]) = 3
    /\ Cardinality(Stalls(reads[w])) = 2
    /\ \E i \in 1 .. 3 : reads[w][i].elapsed = 2 /\ i \notin Stalls(reads[w])
    /\ \E i \in Stalls(reads[w]) : reads[w][i].n = 0
    /\ loop[w].totalStall = 6

\* the reads of h that returned data
DataReads(h) == {i \in 1 .. Len(h) : h[i].n > 0}

\* C32: every Read returns the n and the error of the underlying read;
\* bytes_read grows by n when n > 0 and stays otherwise; first_read_time is
\* the start of the first read with n > 0 and never changes afterwards, and
\* ttfb_ms is 0 while no read has returned data
C32_ReadPassesThrough ==
  /\ [](\A w \in Workers :
          LET h == reads[w]
              l == loop[w]
          IN  /\ \A i \in 1 .. Len(h) : h[i].ret = <<h[i].n, h[i].err>>
              /\ l.firstRead <=> DataReads(h) # {}
              /\ DataReads(h) = {} => TtfbMs(SampleOf(l)) = 0
              /\ \A i \in DataReads(h) :
                   (\A j \in DataReads(h) : i <= j) =>
                     TtfbMs(SampleOf(l)) = h[i].start * UnitsPerSecond * MsPerUnit)
  /\ [][\A w \in Workers :
          Len(reads'[w]) = Len(reads[w]) + 1 =>
            LET r == reads'[w][Len(reads'[w])] IN
            /\ loop'[w].totalBytes =
                 loop[w].totalBytes + (IF r.n > 0 THEN r.n ELSE 0)
            /\ loop[w].firstRead =>
                 loop'[w].firstRead /\ loop'[w].ttfb = loop[w].ttfb]_vars

\* a read without data, then two reads with data that begin at different
\* times: the first of the two is the one stamped
C32_Witness ==
  \E w \in Workers :
    /\ Len(reads[w]) = 3
    /\ reads[w][1].n = 0 /\ reads[w][1].err = "EOF"
    /\ reads[w][2].n > 0
    /\ reads[w][3].n > 0
    /\ reads[w][3].start > reads[w][2].start
    /\ loop[w].ttfb = reads[w][2].start
    /\ loop[w].totalBytes = reads[w][2].n + reads[w][3].n

MaxHistoryCycles == 12

\* two bitrates, so that the order of the history shows
HistorySamples == {SampleGood, SampleFair}

\* one stream without retries, for more cycles than the history holds
InitHistory == InitWith({"s1"}, 1, {0})

NextHistory ==
  \/ Step(Start)
  \/ Step(Tick({1}, MaxHistoryCycles))
  \/ \E k \in Slots : Step(CycleDone(k))
  \/ \E w \in Workers : Step(Acquire(w))
  \/ \E w \in Workers : Step(CheckReadVideo(w))
  \/ \E w \in Workers : Step(CheckFail(w, {ErrRead}))
  \/ \E w \in Workers : Step(CheckCommitBegin(w, HistorySamples))
  \/ \E w \in Workers : Step(CheckCommitEnd(w))
  \/ \E w \in Workers : Step(MarkFailedBegin(w))
  \/ \E w \in Workers : Step(MarkFailedEnd(w))

SpecHistory == InitHistory /\ [][NextHistory]_vars

\* h with b at its end, without its first entry when that makes more than
\* HistoryCap entries
WithNewest(h, b) ==
  IF Len(h) + 1 > HistoryCap THEN SubSeq(h, 2, Len(h)) \o <<b>> ELSE h \o <<b>>

\* C33: a commit that leaves a bitrate > 0 puts it at the end of the history,
\* dropping the oldest entry only when there would be more than 10, and
\* avg_bitrate is the mean of that history, entries from before a failure
\* included; no other step, MarkFailed included, changes the history
C33_HistoryAppendsAndSurvives ==
  [][\A s \in checkers :
       LET h == sc[s].bitrateHistory
           after == sc'[s]
       IN  IF \E w \in Workers :
                StreamOf(w) = s /\ pc[w] = "commit2" /\ pc'[w] = "done"
           THEN IF RGt(after.currentBitrate, Zero)
                THEN /\ after.bitrateHistory = WithNewest(h, after.currentBitrate)
                     /\ IsMeanOf(after.avgBitrate, after.bitrateHistory)
                ELSE after.bitrateHistory = h
           ELSE after.bitrateHistory = h]_vars

\* a failed cycle after more than 10 entries were appended: the snapshot is
\* reset and the history still holds 10 entries
C33_Witness ==
  \E s \in checkers :
    /\ LockFree(s)
    /\ ~sc[s].healthy
    /\ sc[s].consecutiveFails > 0
    /\ sc[s].avgBitrate = Zero
    /\ tally[s].pushed > HistoryCap
    /\ Len(sc[s].bitrateHistory) = HistoryCap

\* ---------------------------------------------------------------------------
\* The labels of the gauges
\* ---------------------------------------------------------------------------

\* allowedTagKeys
AllowedTagKeys == {"table", "desk", "biz", "isp", "role"}

\* labelNames, the label schema of every gauge
LabelNames == <<"project", "line", "id", "table", "desk", "biz", "isp", "role">>

\* (variant: the three base labels only)
GetPrometheusLabelsBaseOnly(m, tags) ==
  [k \in {"project", "line", "id"} |->
     IF k = "project" THEN m.Project ELSE IF k = "line" THEN m.Line ELSE m.ID]

\* getPrometheusLabels of the element m whose Labels map is tags
GetPrometheusLabels(m, tags) ==
  [k \in {"project", "line", "id"} \cup
         ((DOMAIN tags \ {"project", "line", "id"}) \cap AllowedTagKeys) |->
     IF k = "project" THEN m.Project
     ELSE IF k = "line" THEN m.Line
     ELSE IF k = "id" THEN m.ID
     ELSE tags[k]]

\* updateMetrics' labelValues: a label the map lacks reads as ""
LabelValues(labels) ==
  [i \in 1 .. Len(LabelNames) |->
     IF LabelNames[i] \in DOMAIN labels THEN labels[LabelNames[i]] ELSE ""]

\* the series WithLabelValues finds or makes: one per tuple of label values,
\* written here as the values joined by commas
Series(lv) ==
  lv[1] \o "," \o lv[2] \o "," \o lv[3] \o "," \o lv[4] \o "," \o lv[5]
        \o "," \o lv[6] \o "," \o lv[7] \o "," \o lv[8]

\* updateMetrics' loop: every element sets the series of its label values
RECURSIVE SetAll(_, _)
SetAll(series, ms) ==
  IF ms = <<>> THEN series
  ELSE LET m == Head(ms)
           lv == LabelValues(GetPrometheusLabels(m, labelMaps[m.Labels]))
       IN  SetAll((Series(lv) :> UpdateMetrics(m)) @@ series, Tail(ms))

\* updateMetrics after GetAllMetrics has returned
UpdateSeries ==
  /\ visit = NoVisit
  /\ metrics # <<>>
  /\ gauges' = SetAll(gauges, metrics)
  /\ metrics' = <<>>
  /\ UNCHANGED <<loop, reads, config, checkers, sc, mu, schedVars, cycle, pc,
                 attempt, hasVideo, sample, lastErr, clock, histVars, stopVars,
                 timeVars, entries, totalStreams, descr, labelMaps, visit>>

\* a stream entry with tags and the shorthand tag
TaggedEntry(project, group, id, url, tags, tag) ==
  [project |-> project, group |-> group, ID |-> id, URL |-> url, Tags |-> tags,
   Tag |-> tag]

\* entries whose tags name system labels, allowed labels, other labels and
\* "tag", with and without the shorthand
TaggedChoices ==
  {TaggedEntry("p", "CDN", "a", "u1",
               [table |-> "t1", project |-> "x", foo |-> "y"], ""),
   TaggedEntry("p", "cdn", "b", "u2", [tag |-> "long", role |-> "test"], "short"),
   TaggedEntry("q", "Source", "c", "u1", <<>>, "short"),
   TaggedEntry("p", "cdn", "d", "u3",
               [id |-> "z", line |-> "w", isp |-> "ct", desk |-> "d1", biz |-> "b1"],
               "")}

TaggedConfigurations ==
  UNION {[1 .. n -> TaggedChoices] : n \in 0 .. MaxEntries}

InitLabels ==
  /\ checkers = {}
  /\ InitRun({FullFile(30, 10, 1, 0)})
  /\ NotLoaded(TaggedConfigurations)

NextLabels ==
  \/ AddStream
  \/ GetAllMetrics(1)
  \/ \E s \in checkers : GetMetricsOf(s)
  \/ UpdateSeries

SpecLabels == InitLabels /\ [][NextLabels]_vars

\* the user's tag k of entry e, "" when there is none
TagOr(e, k) == IF k \in DOMAIN e.Tags THEN e.Tags[k] ELSE ""

\* the label values the claim gives entry e
ExpectedLabels(e) ==
  <<e.project, ToLower(e.group), e.ID, TagOr(e, "table"), TagOr(e, "desk"),
    TagOr(e, "biz"), TagOr(e, "isp"), TagOr(e, "role")>>

\* the label values a scrape exposes for the checker stored under k, in the
\* store of descriptors d and label maps
ExposedIn(d, maps, k) ==
  LabelValues(
    GetPrometheusLabels([ID |-> d[k].id, Project |-> d[k].project,
                         Line |-> d[k].line],
                        maps[d[k].labels]))

ExposedLabels(k) == ExposedIn(descr, labelMaps, k)

\* C34: the checker an entry registers is exposed with the system values of
\* project, line and id and the user's table, desk, biz, isp and role ("" when
\* absent) and nothing else; its descriptor has "tag" from the shorthand only
\* when the tags have no key "tag"; every series of the gauges carries the
\* labels of a registered checker, which no later step changes
C34_ExposedLabels ==
  /\ [][entries # <<>> /\ entries' = Tail(entries) =>
          LET e == Head(entries)
              k == Key(e.project, ToLower(e.group), e.URL)
              stored == labelMaps'[descr'[k].labels]
          IN  /\ ExposedIn(descr', labelMaps', k) = ExpectedLabels(e)
              /\ "tag" \in DOMAIN stored <=> "tag" \in DOMAIN e.Tags \/ e.Tag # ""
              /\ "tag" \in DOMAIN stored =>
                   stored["tag"] = IF "tag" \in DOMAIN e.Tags
                                   THEN e.Tags["tag"] ELSE e.Tag]_vars
  /\ [][\A k \in checkers :
          descr'[k] = descr[k] =>
            ExposedIn(descr', labelMaps', k) = ExposedLabels(k)]_vars
  /\ [](\A series \in DOMAIN gauges \ Streams :
          \E k \in checkers : Series(ExposedLabels(k)) = series)

\* an entry whose tags carry "project" and "foo" next to "table" is exposed
\* under the system project, with the table and without foo
C34_Witness ==
  /\ "p,cdn,a,t1,,,," \in DOMAIN gauges
  /\ "p,cdn,b,,,,,test" \in DOMAIN gauges

\* C35: a call of checkWithRetry whose first attempt failed and whose second
\* succeeded has slept once, for 2 seconds, has made two attempts and no more,
\* has not called MarkFailed and returns nil; the snapshot it leaves is healthy
\* with consecutive_failures 0 and the packets of the sample
C35_SecondAttemptSucceeds ==
  /\ [](\A w \in Workers :
          calls[w].oks = 1 /\ attempt[w] = 1 =>
            /\ calls[w].sleeps = <<2>>
            /\ calls[w].checks = 2
            /\ calls[w].marks = 0
            /\ calls[w].ret = "nil"
            /\ pc[w] \in {"done", "idle"}
            /\ sc[StreamOf(w)].healthy
            /\ sc[StreamOf(w)].consecutiveFails = 0
            /\ sc[StreamOf(w)].totalPackets > 0
            /\ sc[StreamOf(w)].lastCheckTime > 0)
  /\ [][\A w \in Workers :
          pc[w] = "commit2" /\ pc'[w] = "done" /\ attempt[w] = 1 =>
            /\ sc'[StreamOf(w)].totalPackets = sample[w].packetCount
            /\ sc'[StreamOf(w)].keyframes = sample[w].keyframeCount
            /\ sc'[StreamOf(w)].gopSize = KeyframeInterval(sample[w])
            /\ calls'[w].oks = 1]_vars

\* second attempt succeeded, in a cycle after one that was marked failed
C35_Witness ==
  \E w \in Workers :
    /\ calls[w].oks = 1
    /\ attempt[w] = 1
    /\ calls[w].sleeps = <<2>>
    /\ config.MaxRetries = 2
    /\ cyclesStarted = 2
    /\ sc[StreamOf(w)].healthy
    /\ sc[StreamOf(w)].lastCheckTime > 1

\* ---------------------------------------------------------------------------
\* A stream that delivers audio packets only
\* ---------------------------------------------------------------------------

\* an attempt's timeout above the hard stop (sample_duration 2) and below it
\* (sample_duration 6), without and with a retry
AudioFiles ==
  {FullFile(10, s, 1, r) : s \in {2, 6}, r \in {0, 1}}

InitAudio == checkers = {"s1"} /\ InitConfig(AudioFiles)

NextAudio ==
  \/ Outside(Start)
  \/ \E k \in Slots : Outside(CycleDone(k))
  \/ \E w \in Workers : LoopAcquire(w)
  \/ \E w \in Workers : LoopBackoff(w)
  \/ \E w \in Workers : LoopRequest(w)
  \/ \E w \in Workers : LoopTop(w)
  \/ \E w \in Workers : LoopReadAudio(w)
  \/ \E w \in Workers : LoopReadCancelled(w)
  \/ \E w \in Workers : LoopNoVideo(w)
  \/ \E w \in Workers : Outside(MarkFailedBegin(w))
  \/ \E w \in Workers : Outside(MarkFailedEnd(w))

SpecAudio == InitAudio /\ [][NextAudio]_vars

\* C36: on a stream of audio packets only every attempt fails with the
\* no-video error, checkWithRetry makes all its attempts and calls MarkFailed,
\* and the snapshot it leaves is reset: not healthy, every numeric field 0,
\* consecutive_failures one higher
C36_AudioOnlyFailsNoVideo ==
  \A w \in Workers :
    /\ lastErr[w] \in {"nil", ErrNoVideo}
    /\ calls[w].ret # "running" =>
         LET s == sc[StreamOf(w)] IN
         /\ calls[w].ret = ErrNoVideo
         /\ calls[w].checks = config.MaxRetries + 1
         /\ calls[w].marks = 1
         /\ ~s.healthy /\ UpdateMetrics(GetMetrics(s)).up = 0
         /\ s.consecutiveFails = 1
         /\ s.totalPackets = 0 /\ s.videoPackets = 0 /\ s.audioPackets = 0
         /\ s.keyframes = 0 /\ s.gopSize = 0 /\ s.response = 0
         /\ s.currentBitrate = Zero /\ s.avgBitrate = Zero /\ s.framerate = Zero

C38_NilIffAttemptSucceeded ==
  \A w \in Workers :
    calls[w].ret # "running" =>
      /\ calls[w].ret = "nil" <=> calls[w].oks >= 1
      /\ calls[w].ret # "nil" <=> calls[w].marks >= 1
      /\ cycle[SlotOf(w)].successCount = 1 <=> calls[w].marks = 0

\* ---------------------------------------------------------------------------
\* The locks: s.mu of the scheduler and sc.mu of every stream
\* ---------------------------------------------------------------------------

MaxLockCycles == 2
MaxLockGathers == 1

\* the goroutines that hold s.mu for reading: a GetAllMetrics call from its
\* RLock to its deferred RUnlock.  runCheckCycle's RLock and RUnlock around the
\* copy of the checkers are inside the step that starts a cycle, and AddStream's
\* Lock and Unlock inside AddStream, which main calls before it starts the
\* scheduler and the HTTP server
SchedulerReaders == IF visit = NoVisit THEN {} ELSE {"GetAllMetrics"}

\* one stream after main's loop, cycles that overlap on it, a scrape at any time
InitLocks == InitWith({"s1"}, 2, {0})

WorkerStep ==
  \/ \E w \in Workers : Step(Acquire(w))
  \/ \E w \in Workers : Step(CheckReadVideo(w))
  \/ \E w \in Workers : Step(CheckFail(w, {ErrRead}))
  \/ \E w \in Workers : Step(CheckCommitBegin(w, {SampleGood}))
  \/ \E w \in Workers : Step(CheckCommitEnd(w))
  \/ \E w \in Workers : Step(MarkFailedBegin(w))
  \/ \E w \in Workers : Step(MarkFailedEnd(w))

ScrapeStep ==
  \/ GetAllMetrics(MaxLockGathers)
  \/ \E s \in checkers : GetMetricsOf(s)

SchedulerStep ==
  \/ Step(Start)
  \/ Step(Tick(Slots, MaxLockCycles))
  \/ \E k \in Slots : Step(CycleDone(k))

NextLocks == WorkerStep \/ ScrapeStep \/ SchedulerStep

\* no goroutine that can take a step stands still for ever
FairLocks == WF_vars(WorkerStep) /\ WF_vars(ScrapeStep) /\ WF_vars(SchedulerStep)

SpecLocks == InitLocks /\ [][NextLocks]_vars /\ FairLocks

\* C39: a stream's lock is held by a worker inside its commit or MarkFailed
\* only; it is released again, the scheduler's read lock is released again,
\* and every worker that waits for a lock or a turn and every scrape that
\* waits for a stream's read lock goes on: workers finish and scrapes return
C39_NoDeadlock ==
  /\ [](\A s \in checkers :
          mu[s] # NoWorker =>
            StreamOf(mu[s]) = s /\ pc[mu[s]] \in {"commit2", "mark2"})
  /\ \A s \in Streams : (mu[s] # NoWorker) ~> (mu[s] = NoWorker)
  /\ (SchedulerReaders # {}) ~> (SchedulerReaders = {})
  /\ \A w \in Workers : (pc[w] \notin {"idle", "done"}) ~> (pc[w] \in {"idle", "done"})
  /\ \A k \in Slots : cycle[k].running ~> ~cycle[k].running

\* a scrape holds the scheduler's read lock and waits for the read lock of a
\* stream whose commit is half done, while a worker of the other cycle waits
\* for the same stream's write lock
C39_Witness ==
  \E s \in Streams :
    /\ visit # NoVisit
    /\ s \in visit
    /\ mu[s] # NoWorker
    /\ \E w \in Workers :
         StreamOf(w) = s /\ w # mu[s] /\ pc[w] \in {"check", "markfailed"}

====
